---- MODULE Spec2Model ----
(***************************************************************************)
(* Cube-and-Conquer SAT solving on And-Inverter Graphs (aig_cube).         *)
(*                                                                         *)
(* The model follows src/aig_cube: the Tseytin encoder (cnf.py), the       *)
(* constant-propagation simplifier (remove_constant_gates.py), the         *)
(* Circuit-SAT instance with assign (circuit_instance.py) and the cube     *)
(* driver with the conquer loop (solver.py).  The circuit container is the *)
(* cirbo Circuit: gates keyed by label in insertion order, ordered inputs  *)
(* and outputs, and the reverse index from a gate to its users.            *)
(*                                                                         *)
(* Labels are small integers.  Python objects live in `heap`, keyed by an  *)
(* object identity, so that copy.deepcopy and in-place mutation are        *)
(* distinguishable.  The recursion of _cube is an explicit stack of        *)
(* frames.                                                                 *)
(***************************************************************************)
EXTENDS Integers, Sequences, FiniteSets, TLC

\* ------------------------------------------------------------------------
\* Bounds of the model
\* ------------------------------------------------------------------------

\* largest max_depth a solver is constructed with
MaxDepth == 2

\* largest candidates_limit a solver is constructed with
MaxCandidates == 2

\* ------------------------------------------------------------------------
\* Small helpers on sequences and functions
\* ------------------------------------------------------------------------

Range(s) == { s[i] : i \in DOMAIN s }

InSeq(x, s) == \E i \in DOMAIN s : s[i] = x

RemoveFromSeq(s, x) == SelectSeq(s, LAMBDA y : y # x)

IsPrefix(s, t) == Len(s) <= Len(t) /\ SubSeq(t, 1, Len(s)) = s

\* a faulty PyBool: the value is left None
PyBool_none(b) == "None"

\* Python truthiness of an Optional[bool] held as "None" / "True" / "False"
PyBool(b) == IF b THEN "True" ELSE "False"

Truthy(v) == v = "True"

\* ------------------------------------------------------------------------
\* cirbo Circuit container, as used by the repository
\* ------------------------------------------------------------------------

Gate(gate_type, operands) == [gate_type |-> gate_type, operands |-> operands]

\* Circuit(): no gates, no inputs, no outputs, empty user index
EmptyCircuit ==
  [gates |-> << >>, order |-> << >>, inputs |-> << >>, outputs |-> << >>,
   users |-> << >>]

\* Circuit.emplace_gate: insert a gate, index it as a user of its operands
\* (the user index is an ordered set), list an INPUT among the inputs
emplace_gate(c, label, gate_type, operands) ==
  LET users1 == [l \in DOMAIN c.gates |->
                   IF l \in Range(operands) /\ ~InSeq(label, c.users[l])
                   THEN Append(c.users[l], label)
                   ELSE c.users[l]]
  IN [gates   |-> (label :> Gate(gate_type, operands)) @@ c.gates,
      order   |-> Append(c.order, label),
      inputs  |-> IF gate_type = "INPUT" THEN Append(c.inputs, label)
                  ELSE c.inputs,
      outputs |-> c.outputs,
      users   |-> (label :> << >>) @@ users1]

set_inputs(c, labels) == [c EXCEPT !.inputs = labels]

set_outputs(c, labels) == [c EXCEPT !.outputs = labels]

\* Circuit.size: the number of gates, inputs included
size(c) == Len(c.order)

input_size(c) == Len(c.inputs)

output_size(c) == Len(c.outputs)

\* Circuit._remove_user
remove_user(c, gate_label, user) ==
  [c EXCEPT !.users[gate_label] = RemoveFromSeq(@, user)]

\* Circuit.replace_inputs with one label: the INPUT gate becomes a constant
\* in place, leaves the input list, and keeps its user edges
replace_inputs(c, label, value) ==
  [c EXCEPT !.gates[label] =
              Gate(IF value THEN "ALWAYS_TRUE" ELSE "ALWAYS_FALSE", << >>),
            !.inputs = RemoveFromSeq(@, label)]

\* the gate types of cirbo that take two operands
BinaryTypes ==
  { "AND", "OR", "NAND", "NOR", "XOR", "NXOR", "GEQ", "GT", "LEQ", "LT",
    "LIFF", "RIFF", "LNOT", "RNOT" }

\* Gate.operator on Boolean arguments
operator(gate_type, args) ==
  CASE gate_type = "AND"          -> \A i \in DOMAIN args : args[i]
    [] gate_type = "OR"           -> \E i \in DOMAIN args : args[i]
    [] gate_type = "NAND"         -> ~(\A i \in DOMAIN args : args[i])
    [] gate_type = "NOR"          -> ~(\E i \in DOMAIN args : args[i])
    [] gate_type = "XOR"          ->
         Cardinality({ i \in DOMAIN args : args[i] }) % 2 = 1
    [] gate_type = "NXOR"         ->
         Cardinality({ i \in DOMAIN args : args[i] }) % 2 = 0
    [] gate_type = "GEQ"          -> args[1] \/ ~args[2]
    [] gate_type = "GT"           -> args[1] /\ ~args[2]
    [] gate_type = "LEQ"          -> ~args[1] \/ args[2]
    [] gate_type = "LT"           -> ~args[1] /\ args[2]
    [] gate_type = "LIFF"         -> args[1]
    [] gate_type = "RIFF"         -> args[2]
    [] gate_type = "LNOT"         -> ~args[1]
    [] gate_type = "RNOT"         -> ~args[2]
    [] gate_type = "NOT"          -> ~args[1]
    [] gate_type = "IFF"          -> args[1]
    [] gate_type = "ALWAYS_TRUE"  -> TRUE
    [] gate_type = "ALWAYS_FALSE" -> FALSE

\* Circuit.top_sort(inverse=True): Kahn's algorithm over all gates, from the
\* gates without operands towards the outputs; the work list is a stack
RECURSIVE relax_successors(_, _, _)
relax_successors(succs, indegree, queue) ==
  IF succs = << >> THEN [indegree |-> indegree, queue |-> queue]
  ELSE LET s  == Head(succs)
           d  == indegree[s] - 1
       IN relax_successors(Tail(succs), [indegree EXCEPT ![s] = d],
                           IF d = 0 THEN Append(queue, s) ELSE queue)

RECURSIVE kahn(_, _, _, _)
kahn(c, indegree, queue, out) ==
  IF queue = << >> THEN out
  ELSE LET cur == queue[Len(queue)]
           r   == relax_successors(c.users[cur], indegree,
                                   SubSeq(queue, 1, Len(queue) - 1))
       IN kahn(c, r.indegree, r.queue, Append(out, cur))

top_sort_inverse(c) ==
  LET indegree == [l \in DOMAIN c.gates |->
                     Cardinality(Range(c.gates[l].operands))]
  IN kahn(c, indegree, SelectSeq(c.order, LAMBDA l : indegree[l] = 0), << >>)

\* Circuit.evaluate: the value of gate `label` under the input values
\* `vals` (a function from input labels to BOOLEAN)
RECURSIVE gate_value(_, _, _)
gate_value(c, vals, label) ==
  LET g == c.gates[label]
  IN IF g.gate_type = "INPUT" THEN vals[label]
     ELSE operator(g.gate_type,
                   [i \in DOMAIN g.operands |->
                      gate_value(c, vals, g.operands[i])])

evaluate(c, vals) == [i \in DOMAIN c.outputs |-> gate_value(c, vals, c.outputs[i])]

\* ------------------------------------------------------------------------
\* RemoveConstantGates._transform (remove_constant_gates.py)
\* ------------------------------------------------------------------------

\* resolve_label
resolve_label(label_remap, lbl) ==
  IF lbl \in DOMAIN label_remap THEN label_remap[lbl] ELSE lbl

\* a faulty fold_absorbed: the gate is recorded in const_map and also
\* emitted as a constant gate of the new circuit
fold_absorbed_and_gate(st, label, v) ==
  [st EXCEPT !.const_map = (label :> v) @@ @,
             !.new_circuit =
               emplace_gate(@, label,
                            IF v THEN "ALWAYS_TRUE" ELSE "ALWAYS_FALSE",
                            << >>)]

\* a faulty fold_absorbed: the other constant is recorded
fold_absorbed_negated(st, label, v) ==
  [st EXCEPT !.const_map = (label :> ~v) @@ @]

\* val0 == val1: const_map[g.label] = val0
fold_absorbed(st, label, v) == [st EXCEPT !.const_map = (label :> v) @@ @]

\* one iteration of the loop over circuit.top_sort(inverse=True); st holds
\* new_circuit, const_map and label_remap
transform_gate(c, st, label) ==
  LET g   == c.gates[label]
      ops == [i \in DOMAIN g.operands |->
                resolve_label(st.label_remap, g.operands[i])]
      const_indices == { i \in DOMAIN ops : ops[i] \in DOMAIN st.const_map }
      as_const(v) == [st EXCEPT !.const_map = (label :> v) @@ @]
  IN CASE g.gate_type = "INPUT" ->
            [st EXCEPT !.new_circuit =
                         emplace_gate(@, label, g.gate_type, g.operands)]
       [] g.gate_type = "ALWAYS_TRUE"  -> as_const(TRUE)
       [] g.gate_type = "ALWAYS_FALSE" -> as_const(FALSE)
       [] OTHER ->
            IF const_indices = {}
            THEN [st EXCEPT !.new_circuit =
                              emplace_gate(@, label, g.gate_type, ops)]
            ELSE IF Cardinality(const_indices) = 1 /\ Len(ops) = 2
            THEN LET const_idx     == CHOOSE i \in const_indices : TRUE
                     non_const_idx == IF const_idx = 1 THEN 2 ELSE 1
                     const_val     == st.const_map[ops[const_idx]]
                     non_const_op  == ops[non_const_idx]
                     args(b) == [i \in 1..2 |->
                                   IF i = const_idx THEN const_val ELSE b]
                     val0 == operator(g.gate_type, args(FALSE))
                     val1 == operator(g.gate_type, args(TRUE))
                     nc   == st.new_circuit
                 IN IF val0 = val1 THEN fold_absorbed(st, label, val0)
                    ELSE IF ~val0 /\ val1
                    THEN [st EXCEPT !.label_remap =
                                      (label :> non_const_op) @@ @]
                    ELSE IF non_const_op \in DOMAIN nc.gates
                            /\ nc.gates[non_const_op].gate_type = "NOT"
                    THEN [st EXCEPT !.label_remap =
                            (label :> nc.gates[non_const_op].operands[1]) @@ @]
                    ELSE [st EXCEPT !.new_circuit =
                            emplace_gate(@, label, "NOT", <<non_const_op>>)]
            ELSE \* every operand is constant
                 as_const(operator(g.gate_type,
                            [i \in DOMAIN ops |-> st.const_map[ops[i]]]))

RECURSIVE transform_loop(_, _, _)
transform_loop(c, st, todo) ==
  IF todo = << >> THEN st
  ELSE transform_loop(c, transform_gate(c, st, Head(todo)), Tail(todo))

\* the end of _transform: the inputs and outputs that are not constant
transform_end(c, st) ==
  LET final_inputs  == SelectSeq(c.inputs,
                                 LAMBDA l : l \notin DOMAIN st.const_map)
      resolved_outs == [i \in DOMAIN c.outputs |->
                          resolve_label(st.label_remap, c.outputs[i])]
      final_outputs == SelectSeq(resolved_outs,
                                 LAMBDA l : l \notin DOMAIN st.const_map)
  IN set_outputs(set_inputs(st.new_circuit, final_inputs), final_outputs)

\* the loop of _transform over circuit.top_sort(inverse=True)
transform_all(c) ==
  transform_loop(c,
    [new_circuit |-> EmptyCircuit, const_map |-> << >>,
     label_remap |-> << >>],
    top_sort_inverse(c))

\* the guard at the head of _transform: no gate of the circuit, reached
\* from an output or not, has more than two operands
binary_at_most(c) == \A l \in DOMAIN c.gates : Len(c.gates[l].operands) <= 2

\* "RAISED" is the ValueError of the guard
RemoveConstantGates(c) ==
  IF binary_at_most(c) THEN transform_end(c, transform_all(c)) ELSE "RAISED"

\* ------------------------------------------------------------------------
\* Tseytin encoder (cnf.py)
\* ------------------------------------------------------------------------

\* saved_lits[label] of the defaultdict: a fresh literal on first access.
\* t holds saved_lits, next_lit and cnf
lit_of(t, label) ==
  IF label \in DOMAIN t.saved_lits THEN t
  ELSE [t EXCEPT !.saved_lits = (label :> t.next_lit + 1) @@ @,
                 !.next_lit = @ + 1]

RECURSIVE lits_of(_, _)
lits_of(t, labels) ==
  IF labels = << >> THEN t ELSE lits_of(lit_of(t, Head(labels)), Tail(labels))

\* a faulty gate_clauses: an AND without the clause (top, -a, -b), its
\* literal implying its operands and not implied by them
gate_clauses_one_way(gate_type, top, lits) ==
  CASE gate_type = "INPUT"        -> << >>
    [] gate_type = "ALWAYS_TRUE"  -> << <<top>> >>
    [] gate_type = "ALWAYS_FALSE" -> << <<0 - top>> >>
    [] gate_type = "NOT"          ->
         << <<lits[1], top>>, <<0 - lits[1], 0 - top>> >>
    [] gate_type = "AND"          ->
         [i \in 1..Len(lits) |-> <<lits[i], 0 - top>>]

\* the clauses of one gate, with top its own literal and lits its operands'
gate_clauses(gate_type, top, lits) ==
  CASE gate_type = "INPUT"        -> << >>
    [] gate_type = "ALWAYS_TRUE"  -> << <<top>> >>
    [] gate_type = "ALWAYS_FALSE" -> << <<0 - top>> >>
    [] gate_type = "NOT"          ->
         << <<lits[1], top>>, <<0 - lits[1], 0 - top>> >>
    [] gate_type = "AND"          ->
         [i \in 1..Len(lits) |-> <<lits[i], 0 - top>>]
         \o << <<top>> \o [i \in 1..Len(lits) |-> 0 - lits[i]] >>

\* a gate's clauses appended, its literal and its operands' being saved
encode_gate(t, label, gate) ==
  [t EXCEPT !.cnf =
     @ \o gate_clauses(gate.gate_type, t.saved_lits[label],
                       [i \in DOMAIN gate.operands |->
                          t.saved_lits[gate.operands[i]]])]

\* the operands not yet in saved_lits, pushed in reversed order
RECURSIVE push_operands(_, _, _)
push_operands(stack, operands, saved) ==
  IF operands = << >> THEN stack
  ELSE LET op   == operands[Len(operands)]
           rest == SubSeq(operands, 1, Len(operands) - 1)
       IN push_operands(IF op \in DOMAIN saved
                        THEN stack
                        ELSE Append(stack, [label |-> op, expanded |-> FALSE]),
                        rest, saved)

\* _process_all: the explicit-stack post-order traversal from one root
RECURSIVE process_all(_, _, _)
process_all(c, t, stack) ==
  IF stack = << >> THEN t
  ELSE LET top_e == stack[Len(stack)]
           rest  == SubSeq(stack, 1, Len(stack) - 1)
           label == top_e.label
           gate  == c.gates[label]
       IN IF label \in DOMAIN t.saved_lits THEN process_all(c, t, rest)
          ELSE IF ~top_e.expanded
          THEN process_all(c, t,
                 push_operands(
                   Append(rest, [label |-> label, expanded |-> TRUE]),
                   gate.operands, t.saved_lits))
          ELSE process_all(c,
                 encode_gate(lits_of(t, gate.operands \o <<label>>),
                             label, gate),
                 rest)

\* cnf.append([out_lit]) with out_lit = saved_lits[root]
assert_root(t, root) == [t EXCEPT !.cnf = Append(@, <<t.saved_lits[root]>>)]

RECURSIVE encode_outputs(_, _, _)
encode_outputs(c, t, i) ==
  IF i > output_size(c) THEN t
  ELSE encode_outputs(c,
         assert_root(
           lit_of(process_all(c, t,
                    << [label |-> c.outputs[i], expanded |-> FALSE] >>),
                  c.outputs[i]),
           c.outputs[i]),
         i + 1)

\* Cnf(cnf, var_map=dict(saved_lits))
Cnf(t) == [cnf |-> t.cnf, var_map |-> t.saved_lits]

\* a faulty tseytin_transformation: the inputs not given their literals
\* before the traversal
tseytin_transformation_inputs_late(c) ==
  Cnf(encode_outputs(c,
        [saved_lits |-> << >>, next_lit |-> 0, cnf |-> << >>], 1))

\* tseytin_transformation: the Cnf, as its clause list and its var_map
tseytin_transformation(c) ==
  Cnf(encode_outputs(c,
        lits_of([saved_lits |-> << >>, next_lit |-> 0, cnf |-> << >>],
                c.inputs),
        1))

\* ------------------------------------------------------------------------
\* CircuitSatInstance (circuit_instance.py)
\* ------------------------------------------------------------------------

\* a faulty _check_circuit: ALWAYS_TRUE and ALWAYS_FALSE gates let through
check_circuit_with_constants(c) ==
  \A l \in DOMAIN c.gates :
    LET g == c.gates[l]
    IN \/ g.gate_type \in {"INPUT", "ALWAYS_TRUE", "ALWAYS_FALSE"}
       \/ g.gate_type = "AND" /\ Len(g.operands) = 2
       \/ g.gate_type = "NOT" /\ Len(g.operands) = 1

\* _check_circuit: TRUE when it raises no ValueError
check_circuit(c) ==
  \A l \in DOMAIN c.gates :
    LET g == c.gates[l]
    IN \/ g.gate_type = "INPUT"
       \/ g.gate_type = "AND" /\ Len(g.operands) = 2
       \/ g.gate_type = "NOT" /\ Len(g.operands) = 1

\* a faulty get_var: no variable found for any label
get_var_none(var_map, label) == 0

\* Cnf.get_var: the label's variable, 0 standing for None
get_var(var_map, label) ==
  IF label \in DOMAIN var_map THEN var_map[label] ELSE 0

\* a faulty add_clause: insert(0, clause) in place of append(clause)
add_clause_front(inst, clause) == [inst EXCEPT !.cnf = <<clause>> \o @]

\* Cnf.add_clause on the instance's Cnf
add_clause(inst, clause) == [inst EXCEPT !.cnf = Append(@, clause)]

\* CircuitSatInstance.__init__
instance_of(c, enc) ==
  [circuit |-> c,
   cnf     |-> enc.cnf,
   var_map |-> enc.var_map,
   gates_config |->
     [l \in DOMAIN c.gates |->
        [idx      |-> get_var(enc.var_map, l),
         is_input |-> c.gates[l].gate_type = "INPUT",
         value    |-> "None"]]]

new_instance(c) == instance_of(c, tseytin_transformation(c))

\* a faulty and_false_clause: [-lit0] alone
and_false_first(lit0, lit1) == <<0 - lit0>>

\* a faulty unit_clause: [lit] whatever the value
unit_clause_positive(lit, value) == <<lit>>

\* the unit clause [lit if value else -lit]
unit_clause(lit, value) == <<IF value THEN lit ELSE 0 - lit>>

\* the clause [-lit0, -lit1] of an AND assigned False
and_false_clause(lit0, lit1) == <<0 - lit0, 0 - lit1>>

\* a faulty simplify: gates_config numbered again from an encoding of the
\* simplified circuit
renumbered(inst, c, enc) ==
  [inst EXCEPT !.circuit = c,
               !.gates_config =
                  [l \in DOMAIN @ |-> [@[l] EXCEPT !.idx = get_var(enc.var_map, l)]]]

renumbered_from(inst, c) == renumbered(inst, c, tseytin_transformation(c))

simplify_renumbered(inst) ==
  renumbered_from(inst, RemoveConstantGates(inst.circuit))

\* simplify
simplify(inst) == [inst EXCEPT !.circuit = RemoveConstantGates(@)]

\* the loop of _remove_user over the operands of the assigned gate
RECURSIVE remove_users(_, _, _)
remove_users(c, operands, user) ==
  IF operands = << >> THEN c
  ELSE remove_users(remove_user(c, Head(operands), user), Tail(operands), user)

\* _assign_and_propagate: the instance as the call leaves it, and the
\* status; RAISED stands for an exception: that of Circuit.get_gate on a
\* label the circuit does not hold, and the TypeError of `-lit` on a gate
\* whose idx is None (0 here), a gate the outputs did not reach when the
\* instance was built.  [None] is appended as it is, the clause <<0>>
RECURSIVE assign_and_propagate(_, _, _)

\* the loop over the operands of an AND assigned True, after the first one
and_then(r1, operand_label) ==
  IF r1.status # "OK" THEN r1
  ELSE assign_and_propagate(r1.inst, operand_label, TRUE)

assign_and_propagate(inst, label, value) ==
  LET gate == inst.circuit.gates[label]
      lit  == inst.gates_config[label].idx
      i1   == add_clause(inst, unit_clause(lit, value))
      \* the gate replaced by a constant, its operand edges severed
      i2   == [i1 EXCEPT !.circuit =
                 [remove_users(@, gate.operands, label) EXCEPT
                    !.gates[label] =
                       Gate(IF value THEN "ALWAYS_TRUE" ELSE "ALWAYS_FALSE",
                            << >>)]]
  IN IF label \notin DOMAIN inst.circuit.gates
     THEN [inst |-> inst, status |-> "RAISED"]
     ELSE IF gate.gate_type \in {"ALWAYS_TRUE", "ALWAYS_FALSE"}
     THEN [inst   |-> inst,
           status |-> IF operator(gate.gate_type, << >>) # value
                      THEN "CONFLICT" ELSE "OK"]
     ELSE IF lit = 0 /\ ~value
     THEN [inst |-> inst, status |-> "RAISED"]
     ELSE IF gate.gate_type = "INPUT"
     THEN [inst   |-> [i1 EXCEPT
                         !.circuit = replace_inputs(@, label, value),
                         !.gates_config[label].value = PyBool(value)],
           status |-> "OK"]
     ELSE IF gate.gate_type = "NOT"
     THEN assign_and_propagate(i2, gate.operands[1], ~value)
     ELSE IF value
     THEN \* AND = true: both operands true, stopping at the first conflict
          and_then(assign_and_propagate(i2, gate.operands[1], TRUE),
                   gate.operands[2])
     ELSE IF i2.gates_config[gate.operands[1]].idx = 0
             \/ i2.gates_config[gate.operands[2]].idx = 0
     THEN [inst |-> i2, status |-> "RAISED"]
     ELSE \* AND = false: the operands cannot both be true
          [inst   |-> add_clause(i2,
                        and_false_clause(
                          i2.gates_config[gate.operands[1]].idx,
                          i2.gates_config[gate.operands[2]].idx)),
           status |-> "OK"]

\* a faulty simplify_if_ok: self.simplify() whatever the status
simplify_if_ok_always(r) == [inst |-> simplify(r.inst), status |-> r.status]

\* a faulty simplify_if_ok: assign returns without self.simplify()
simplify_if_ok_never(r) == r

\* assign: propagate, and simplify unless the propagation conflicts
simplify_if_ok(r) ==
  IF r.status # "OK" THEN r
  ELSE [inst |-> simplify(r.inst), status |-> "OK"]

assign(inst, label, value) ==
  simplify_if_ok(assign_and_propagate(inst, label, value))

\* a faulty returned: the instance is returned whatever the status
returned_always(r) == [none |-> FALSE, inst |-> r.inst, status |-> r.status]

\* what from_circuit returns after status = instance.assign(outputs[0],
\* True): None unless the status is OK
returned(r) == [none |-> r.status # "OK", inst |-> r.inst, status |-> r.status]

from_instance(inst0, label) == returned(assign(inst0, label, TRUE))

\* from_circuit: the new instance with its output fixed to True; "RAISED"
\* is the AssertionError on output_size or the ValueError of the constructor
from_circuit(c) ==
  IF output_size(c) # 1 \/ ~check_circuit(c)
  THEN [none |-> TRUE, inst |-> << >>, status |-> "RAISED"]
  ELSE from_instance(new_instance(c), c.outputs[1])

\* ------------------------------------------------------------------------
\* The pre-transforms of cube(): cirbo's MergeUnaryOperators, which ends
\* with RemoveRedundantGates
\* ------------------------------------------------------------------------

\* the gates reachable from the labels in `frontier`
RECURSIVE reachable(_, _, _)
reachable(c, frontier, seen) ==
  IF frontier \subseteq seen THEN seen
  ELSE LET new == frontier \ seen
       IN reachable(c,
            UNION { Range(c.gates[l].operands) : l \in new },
            seen \cup new)

\* tseytin_transformation returns: no gate the traversal comes to makes it
\* raise ValueError("Unsupported gate type"), or IndexError at lits[0] of a
\* NOT without operands
encodable(c) ==
  \A l \in reachable(c, Range(c.outputs), {}) :
    LET g == c.gates[l]
    IN \/ g.gate_type \in {"INPUT", "ALWAYS_TRUE", "ALWAYS_FALSE", "AND"}
       \/ g.gate_type = "NOT" /\ Len(g.operands) >= 1

RECURSIVE copy_gates(_, _, _, _)
copy_gates(c, nc, todo, keep) ==
  IF todo = << >> THEN nc
  ELSE LET l == Head(todo)
       IN copy_gates(c,
            IF l \in keep
            THEN emplace_gate(nc, l, c.gates[l].gate_type, c.gates[l].operands)
            ELSE nc,
            Tail(todo), keep)

\* RemoveRedundantGates: drop every gate no output depends on; inputs stay
RemoveRedundantGates(c) ==
  set_outputs(
    set_inputs(
      copy_gates(c, EmptyCircuit, c.order,
                 reachable(c, Range(c.outputs), {}) \cup Range(c.inputs)),
      c.inputs),
    c.outputs)

\* one gate of MergeUnaryOperators: an IFF is merged into its operand, a
\* NOT whose operand already has a NOT is merged into that first NOT; m
\* holds the circuit built so far, the first NOT of each operand and the
\* labels merged away
merge_gate(c, m, label) ==
  LET g   == c.gates[label]
      ops == [i \in DOMAIN g.operands |->
                resolve_label(m.merged, g.operands[i])]
  IN IF g.gate_type = "IFF"
     THEN [m EXCEPT !.merged = (label :> ops[1]) @@ @]
     ELSE IF g.gate_type = "NOT" /\ ops[1] \in DOMAIN m.first_not
     THEN [m EXCEPT !.merged = (label :> m.first_not[ops[1]]) @@ @]
     ELSE [m EXCEPT
             !.new_circuit = emplace_gate(@, label, g.gate_type, ops),
             !.first_not = IF g.gate_type = "NOT"
                           THEN (ops[1] :> label) @@ @ ELSE @]

RECURSIVE merge_loop(_, _, _)
merge_loop(c, m, todo) ==
  IF todo = << >> THEN m
  ELSE merge_loop(c, merge_gate(c, m, Head(todo)), Tail(todo))

merge_end(c, m) ==
  set_outputs(set_inputs(m.new_circuit, c.inputs),
              [i \in DOMAIN c.outputs |->
                 resolve_label(m.merged, c.outputs[i])])

MergeUnaryOperators(c) ==
  RemoveRedundantGates(
    merge_end(c,
      merge_loop(c,
        [new_circuit |-> EmptyCircuit, first_not |-> << >>,
         merged |-> << >>],
        c.order)))

\* Transformer.apply_transformers(circuit,
\*   [RemoveConstantGates(), MergeUnaryOperators()])
apply_transformers(c) ==
  IF binary_at_most(c) THEN MergeUnaryOperators(RemoveConstantGates(c))
  ELSE "RAISED"

\* ------------------------------------------------------------------------
\* Objects: the heap of CircuitSatInstance objects and copy.deepcopy
\* ------------------------------------------------------------------------

\* a faulty deepcopy: branch = instance, the same object
deepcopy_alias(h, id) == [heap |-> h, id |-> id]

\* copy.deepcopy(instance): a new object with equal contents
deepcopy(h, id) ==
  LET new_id == 1 + Cardinality(DOMAIN h)
  IN [heap |-> (new_id :> h[id]) @@ h, id |-> new_id]

\* instance.assign(label, value) on the object `id`: the object is mutated
\* in place
assigned(h, id, r) ==
  [heap |-> [h EXCEPT ![id] = r.inst], status |-> r.status, id |-> id]

heap_assign(h, id, label, value) ==
  assigned(h, id, assign(h[id], label, value))

\* branch = copy.deepcopy(instance); branch.assign(label, value)
assign_copy(cp, label, value) == heap_assign(cp.heap, cp.id, label, value)

branch_assign(h, id, label, value) ==
  assign_copy(deepcopy(h, id), label, value)

\* ------------------------------------------------------------------------
\* Cube driver (solver.py)
\* ------------------------------------------------------------------------

\* a faulty should_stop: depth == self.max_depth in place of >=
should_stop_exact(inst, depth, max_d) ==
  input_size(inst.circuit) = 0 \/ depth = max_d

\* a faulty should_stop: depth > self.max_depth in place of >=
should_stop_strict(inst, depth, max_d) ==
  input_size(inst.circuit) = 0 \/ depth > max_d

\* _should_stop
should_stop(inst, depth, max_d) ==
  input_size(inst.circuit) = 0 \/ depth >= max_d

\* the structural score of _rank_candidates
RECURSIVE outdegree(_, _)
outdegree(c, user_labels) ==
  IF user_labels = << >> THEN 0
  ELSE LET u == Head(user_labels)
       IN (IF c.gates[u].gate_type = "NOT" THEN Len(c.users[u]) ELSE 1)
          + outdegree(c, Tail(user_labels))

score(c, label) ==
  (Len(c.gates[label].operands) + 1) * (outdegree(c, c.users[label]) + 1)

\* list.sort(key=score, reverse=True): stable, by descending score
RECURSIVE sort_by_score(_, _)
sort_by_score(c, labels) ==
  IF labels = << >> THEN << >>
  ELSE LET best == CHOOSE i \in DOMAIN labels :
                     /\ \A j \in DOMAIN labels :
                          score(c, labels[j]) <= score(c, labels[i])
                     /\ \A j \in 1..(i - 1) :
                          score(c, labels[j]) < score(c, labels[i])
       IN <<labels[best]>>
          \o sort_by_score(c, SubSeq(labels, 1, best - 1)
                              \o SubSeq(labels, best + 1, Len(labels)))

\* scores[:k]: the first k elements, and all but the last -k when k < 0
slice_to(s, k) ==
  LET stop == IF k < 0 THEN Len(s) + k ELSE k
  IN SubSeq(s, 1, IF stop < 0 THEN 0 ELSE IF stop > Len(s) THEN Len(s)
                  ELSE stop)

\* _rank_candidates
rank_candidates(inst, limit) ==
  LET c      == inst.circuit
      scored == SelectSeq(c.order,
                  LAMBDA l : c.gates[l].gate_type \in {"AND", "INPUT"})
      sorted == sort_by_score(c, scored)
  IN slice_to(sorted, limit)

\* _weight_gate: forced_value and weight are "None" and 0 where the code
\* leaves them None; raised is TRUE when `assert delta > 0` fails or the
\* assignment raises.  The copies are locals: only the objects of the caller
\* outlive the call
weight_result(h, hh, forced_value, weight, raised) ==
  [heap |-> [i \in DOMAIN h |-> hh[i]], forced_value |-> forced_value,
   weight |-> weight, raised |-> raised]

\* a faulty weight_true: forced_value=val in place of forced_value=not val
weight_true_same_value(h, start_size, delta0, b1) ==
  IF b1.status = "RAISED" THEN weight_result(h, b1.heap, "None", 0, TRUE)
  ELSE IF b1.status # "OK" THEN weight_result(h, b1.heap, "True", 0, FALSE)
  ELSE weight_result(h, b1.heap, "None",
         delta0 * (start_size - size(b1.heap[b1.id].circuit)),
         start_size - size(b1.heap[b1.id].circuit) <= 0)

\* the iteration with val = True, after delta0 of the first
weight_true(h, start_size, delta0, b1) ==
  IF b1.status = "RAISED" THEN weight_result(h, b1.heap, "None", 0, TRUE)
  ELSE IF b1.status # "OK" THEN weight_result(h, b1.heap, "False", 0, FALSE)
  ELSE weight_result(h, b1.heap, "None",
         delta0 * (start_size - size(b1.heap[b1.id].circuit)),
         start_size - size(b1.heap[b1.id].circuit) <= 0)

\* the iteration with val = False, then the other one
weight_false(h, id, label, start_size, b0) ==
  IF b0.status = "RAISED" THEN weight_result(h, b0.heap, "None", 0, TRUE)
  ELSE IF b0.status # "OK" THEN weight_result(h, b0.heap, "True", 0, FALSE)
  ELSE IF start_size - size(b0.heap[b0.id].circuit) <= 0
  THEN weight_result(h, b0.heap, "None", 0, TRUE)
  ELSE weight_true(h, start_size, start_size - size(b0.heap[b0.id].circuit),
                   branch_assign(b0.heap, id, label, TRUE))

weight_gate(h, id, label) ==
  weight_false(h, id, label, size(h[id].circuit),
               branch_assign(h, id, label, FALSE))

\* the loop of _select_gate over the ranked candidates; kind "raised" is an
\* exception leaving _select_gate (a failed assert among them); label 0 is
\* None
selection(h, kind, label, forced_value) ==
  [heap |-> h, kind |-> kind, label |-> label, forced_value |-> forced_value]

RECURSIVE select_loop(_, _, _, _, _)

\* a faulty select_body: wr.weight >= best_weight in place of >
select_body_last_tie(id, label, wr, rest, best_label, best_weight) ==
  IF wr.raised THEN selection(wr.heap, "raised", label, "None")
  ELSE IF wr.forced_value # "None"
  THEN selection(wr.heap, "forced", label, wr.forced_value)
  ELSE select_loop(wr.heap, id, rest,
                   IF wr.weight >= best_weight THEN label ELSE best_label,
                   IF wr.weight >= best_weight THEN wr.weight ELSE best_weight)

\* the body of the loop for the candidate `label` with its weight result
select_body(id, label, wr, rest, best_label, best_weight) ==
  IF wr.raised THEN selection(wr.heap, "raised", label, "None")
  ELSE IF wr.forced_value # "None"
  THEN selection(wr.heap, "forced", label, wr.forced_value)
  ELSE select_loop(wr.heap, id, rest,
                   IF wr.weight > best_weight THEN label ELSE best_label,
                   IF wr.weight > best_weight THEN wr.weight ELSE best_weight)

select_loop(h, id, candidates, best_label, best_weight) ==
  IF candidates = << >>
  THEN selection(h, IF best_label = 0 THEN "raised" ELSE "branch",
                 best_label, "None")
  ELSE select_body(id, Head(candidates),
                   weight_gate(h, id, Head(candidates)),
                   Tail(candidates), best_label, best_weight)

\* _select_gate: kind "none" where the code returns None
select_from(h, id, candidates) ==
  IF candidates = << >> THEN selection(h, "none", 0, "None")
  ELSE select_loop(h, id, candidates, 0, 0)

select_gate(h, id, limit) == select_from(h, id, rank_candidates(h[id], limit))

\* ------------------------------------------------------------------------
\* cube() and _cube() as functions of the circuit and the two parameters:
\* the list of leaf instances, in the order the recursion returns them
\* ------------------------------------------------------------------------

\* the values _cube descends with for a selection: the forced value, or
\* False then True
branch_values(sel) ==
  IF sel.kind = "forced" THEN << Truthy(sel.forced_value) >>
  ELSE << FALSE, TRUE >>

\* the instances _cube descends into, each the instance (or its deep copy)
\* after assign(selection.label, value), with the status of the assignment
children_of(inst, label, values) ==
  [i \in DOMAIN values |-> assign(inst, label, values[i])]

\* what _cube returns: its leaves, or an exception that leaves it
leaves(cs) == [raised |-> FALSE, cubes |-> cs]

RECURSIVE cube_rec(_, _, _, _)
RECURSIVE cube_each(_, _, _, _)

\* result.extend(self._cube(branch, depth + 1)) over the children; an
\* assignment or a call that raises ends the loop with its exception
cube_each(children, depth, max_d, limit) ==
  IF children = << >> THEN leaves(<< >>)
  ELSE IF Head(children).status = "RAISED"
  THEN [raised |-> TRUE, cubes |-> << >>]
  ELSE LET first == cube_rec(Head(children).inst, depth, max_d, limit)
           rest  == cube_each(Tail(children), depth, max_d, limit)
       IN IF first.raised THEN first
          ELSE IF rest.raised THEN rest
          ELSE leaves(first.cubes \o rest.cubes)

\* _cube after _select_gate, whose exception leaves _cube too
cube_selected(inst, depth, max_d, limit, sel) ==
  IF sel.kind = "none" THEN leaves(<<inst>>)
  ELSE IF sel.kind = "raised" THEN [raised |-> TRUE, cubes |-> << >>]
  ELSE cube_each(children_of(inst, sel.label, branch_values(sel)),
                 depth + 1, max_d, limit)

\* _cube(instance, depth)
cube_rec(inst, depth, max_d, limit) ==
  IF should_stop(inst, depth, max_d) THEN leaves(<<inst>>)
  ELSE cube_selected(inst, depth, max_d, limit,
                     select_gate(1 :> inst, 1, limit))

\* list(self._cube(instance)), "RAISED" for an exception
cube_list(r) == IF r.raised THEN "RAISED" ELSE r.cubes

\* cube() from the result of from_circuit
cube_from(r, max_d, limit) ==
  IF r.status = "RAISED" THEN "RAISED"
  ELSE IF r.none THEN << >>
  ELSE cube_list(cube_rec(r.inst, 0, max_d, limit))

\* cube() from the simplified circuit
cube_of(pre, max_d, limit) ==
  IF output_size(pre) = 0 THEN << >>
  ELSE cube_from(from_circuit(pre), max_d, limit)

\* cube(circuit) of a solver with max_depth = max_d, candidates_limit = limit
\* "RAISED" is the AssertionError on output_size, the ValueError of the
\* simplifier, or an exception of from_circuit or of _cube
cube(c, max_d, limit) ==
  IF output_size(c) # 1 \/ ~binary_at_most(c) THEN "RAISED"
  ELSE cube_of(apply_transformers(c), max_d, limit)

\* ------------------------------------------------------------------------
\* SAT backend (sat.py) and ground truth
\* ------------------------------------------------------------------------

\* a literal under the assignment that makes exactly the variables of A true
lit_true(lit, A) == IF lit > 0 THEN lit \in A ELSE (0 - lit) \notin A

clause_true(clause, A) == \E i \in DOMAIN clause : lit_true(clause[i], A)

\* the satisfying assignments of a clause list over the variables 1..n
sat_models(cnf, n) ==
  { A \in SUBSET (1..n) : \A i \in DOMAIN cnf : clause_true(cnf[i], A) }

num_vars(inst) == Cardinality(DOMAIN inst.var_map)

\* is_satisfiable(cnf).answer, of a backend that answers correctly
is_satisfiable(inst) == sat_models(inst.cnf, num_vars(inst)) # {}

\* the input assignments of a circuit, and those that make its output true
input_assignments(c) == [Range(c.inputs) -> BOOLEAN]

satisfying_inputs(c) ==
  { vals \in input_assignments(c) : evaluate(c, vals)[1] }

\* the model list conquer builds for a SAT cube
conquer_model(inst) ==
  [i \in 1..Cardinality(DOMAIN inst.gates_config) |->
     IF \E l \in DOMAIN inst.gates_config :
          inst.gates_config[l].is_input /\ inst.gates_config[l].idx = i
     THEN LET l == CHOOSE l \in DOMAIN inst.gates_config :
                     inst.gates_config[l].is_input
                     /\ inst.gates_config[l].idx = i
          IN IF Truthy(inst.gates_config[l].value) THEN i ELSE 0 - i
     ELSE 0]

\* PySatResult; model << >> with model_none TRUE is None
PySatResult(answer, model_none, model) ==
  [answer |-> answer, model_none |-> model_none, model |-> model]

\* ------------------------------------------------------------------------
\* The circuits given to the solver.  Labels are integers.  Every circuit
\* that emplace_gate builds from Circuit() with at most MaxGates gates is
\* one of them, with any of its gates as the output: inputs and constants
\* stand anywhere among the gates, an operand is any gate made before, in
\* either order and also twice, gates may be left unused.  Larger circuits
\* are named one by one: those the tests build, those load_aig makes of
\* small AIGER files (the parser creates __false__ and __true__ before the
\* inputs, a NOT gate when a negated literal is first met, an IFF gate for
\* a named output, and moves a renamed input behind the other gates)
\* ------------------------------------------------------------------------

\* largest number of gates of a circuit built gate by gate
MaxGates == 3

\* the gates to add to a circuit of n gates, those of two operands of the
\* types `binary`
gate_choices(n, binary) ==
  { Gate("INPUT", << >>), Gate("ALWAYS_TRUE", << >>),
    Gate("ALWAYS_FALSE", << >>) }
  \cup { Gate("NOT", <<j>>) : j \in 1..n }
  \cup { Gate("IFF", <<j>>) : j \in 1..n }
  \cup { Gate(t, <<j, k>>) : t \in binary, j \in 1..n, k \in 1..n }

RECURSIVE grow(_, _)
grow(c, binary) ==
  {c} \cup
  (IF size(c) >= MaxGates THEN {}
   ELSE UNION { grow(emplace_gate(c, size(c) + 1, g.gate_type, g.operands),
                     binary) :
                g \in gate_choices(size(c), binary) })

RECURSIVE bare_circuit(_)
bare_circuit(ni) ==
  IF ni = 0 THEN EmptyCircuit
  ELSE emplace_gate(bare_circuit(ni - 1), ni, "INPUT", << >>)

RECURSIVE add_gates(_, _)
add_gates(c, gates) ==
  IF gates = << >> THEN c
  ELSE add_gates(emplace_gate(c, size(c) + 1, Head(gates).gate_type,
                              Head(gates).operands),
                 Tail(gates))

\* create_aig_xor of the tests: not_a, not_b, both_false, both_true,
\* not_both_false, not_both_true, xor_out over the inputs 1 and 2
AIG_XOR_CIRCUIT ==
  set_outputs(
    add_gates(bare_circuit(2),
      << Gate("NOT", <<1>>), Gate("NOT", <<2>>), Gate("AND", <<3, 4>>),
         Gate("AND", <<1, 2>>), Gate("NOT", <<5>>), Gate("NOT", <<6>>),
         Gate("AND", <<7, 8>>) >>),
    <<9>>)

\* test_de_morgan, c1: and_ab = a AND b, out = NOT and_ab
DE_MORGAN_CIRCUIT ==
  set_outputs(
    add_gates(bare_circuit(2),
      << Gate("AND", <<1, 2>>), Gate("NOT", <<3>>) >>),
    <<4>>)

\* test_complex_unsat: not_a, and1 = a AND b, and2 = not_a AND b,
\* out = and1 AND and2
COMPLEX_UNSAT_CIRCUIT ==
  set_outputs(
    add_gates(bare_circuit(2),
      << Gate("NOT", <<1>>), Gate("AND", <<1, 2>>), Gate("AND", <<3, 2>>),
         Gate("AND", <<4, 5>>) >>),
    <<6>>)

\* test_triple_contradiction_unsat: not_a, and1 = a AND not_a,
\* out = and1 AND b
TRIPLE_CONTRADICTION_CIRCUIT ==
  set_outputs(
    add_gates(bare_circuit(2),
      << Gate("NOT", <<1>>), Gate("AND", <<1, 3>>), Gate("AND", <<4, 2>>) >>),
    <<5>>)

\* NOT(x AND NOT NOT x) AND NOT(NOT x AND NOT NOT NOT x) over the input 1:
\* unsatisfiable, and only the clauses of the two ANDs set to False say so
UNSAT_CIRCUIT ==
  set_outputs(
    add_gates(bare_circuit(1),
      << Gate("NOT", <<1>>), Gate("NOT", <<2>>), Gate("NOT", <<3>>),
         Gate("AND", <<1, 3>>), Gate("AND", <<2, 4>>), Gate("NOT", <<5>>),
         Gate("NOT", <<6>>), Gate("AND", <<7, 8>>) >>),
    <<9>>)

\* what the parser has made when the header is read: __false__, __true__
\* and the inputs i0, i1, ... as the gates 3, 4, ...
aag_header(ni) ==
  add_gates(EmptyCircuit,
    << Gate("ALWAYS_FALSE", << >>), Gate("ALWAYS_TRUE", << >>) >>
    \o [i \in 1..ni |-> Gate("INPUT", << >>)])

\* load_aig of "aag 3 2 0 1 1 / 2 / 4 / 6 / 6 4 2": n3 = i1 AND i0
AAG_AND_CIRCUIT ==
  set_outputs(add_gates(aag_header(2), << Gate("AND", <<4, 3>>) >>), <<5>>)

\* load_aig of "aag 1 1 0 1 0 / 2 / 2 / o0 out": the named output is an IFF
\* gate over i0
AAG_NAMED_OUTPUT_CIRCUIT ==
  set_outputs(add_gates(aag_header(1), << Gate("IFF", <<3>>) >>), <<4>>)

\* load_aig of "aag 3 1 0 1 2 / 2 / 7 / 4 2 3 / 6 2 4": not_i0,
\* n2 = i0 AND not_i0, n3 = i0 AND n2, and the output not_n3
AAG_X_AND_FALSE_CIRCUIT ==
  set_outputs(
    add_gates(aag_header(1),
      << Gate("NOT", <<3>>), Gate("AND", <<3, 4>>), Gate("AND", <<3, 5>>),
         Gate("NOT", <<6>>) >>),
    <<7>>)

\* load_aig of "aag 3 1 0 1 2 / 2 / 7 / 4 2 3 / 6 3 4": as before with
\* n3 = not_i0 AND n2
AAG_NOT_X_AND_FALSE_CIRCUIT ==
  set_outputs(
    add_gates(aag_header(1),
      << Gate("NOT", <<3>>), Gate("AND", <<3, 4>>), Gate("AND", <<4, 5>>),
         Gate("NOT", <<6>>) >>),
    <<7>>)

\* load_aig of "aag 3 1 0 1 2 / 2 / 7 / 4 2 2 / 6 2 4": n2 = i0 AND i0,
\* n3 = i0 AND n2, and the output not_n3
AAG_X_AND_X_CIRCUIT ==
  set_outputs(
    add_gates(aag_header(1),
      << Gate("AND", <<3, 3>>), Gate("AND", <<3, 4>>), Gate("NOT", <<5>>) >>),
    <<6>>)

\* load_aig of "aag 4 2 0 1 2 / 2 / 4 / 9 / 6 2 4 / 8 4 6": n3 = i0 AND i1,
\* n4 = i1 AND n3, and the output not_n4
AAG_NESTED_AND_CIRCUIT ==
  set_outputs(
    add_gates(aag_header(2),
      << Gate("AND", <<3, 4>>), Gate("AND", <<4, 5>>), Gate("NOT", <<6>>) >>),
    <<7>>)

\* AIGParser._rename_gate, for the symbol of an input: the gate old_label
\* and its gate old_not (not_<old_label>, where the circuit has it) are
\* deleted with their entries in _inputs and _gate_to_users and emplaced
\* again under their new labels, behind every other gate; then the operands
\* that name the old gates are rewritten, and the gates rewritten are made
\* users of the new ones
rename_gate(c, old_label, old_not, new_label, new_not) ==
  LET drop_gate(d, label) ==
        [gates   |-> [l \in DOMAIN d.gates \ {label} |-> d.gates[l]],
         order   |-> RemoveFromSeq(d.order, label),
         inputs  |-> RemoveFromSeq(d.inputs, label),
         outputs |-> d.outputs,
         users   |-> [l \in DOMAIN d.users \ {label} |-> d.users[l]]]
      had_not == old_not \in DOMAIN c.gates
      c1 == IF had_not THEN drop_gate(c, old_not) ELSE c
      c2 == emplace_gate(drop_gate(c1, old_label), new_label,
                         c.gates[old_label].gate_type,
                         c.gates[old_label].operands)
      c3 == IF had_not THEN emplace_gate(c2, new_not, "NOT", <<new_label>>)
            ELSE c2
      renamed(op) == IF op = old_label THEN new_label
                     ELSE IF op = old_not THEN new_not ELSE op
      new_ops(l) == [i \in DOMAIN c3.gates[l].operands |->
                       renamed(c3.gates[l].operands[i])]
      changed == SelectSeq(c3.order,
                   LAMBDA l : new_ops(l) # c3.gates[l].operands)
      users_of(nl) ==
        c3.users[nl]
        \o SelectSeq(changed, LAMBDA l : /\ nl \in Range(new_ops(l))
                                         /\ ~InSeq(l, c3.users[nl]))
  IN IF new_label \in DOMAIN c.gates THEN c
     ELSE [c3 EXCEPT !.gates = [l \in DOMAIN c3.gates |->
                                  Gate(c3.gates[l].gate_type, new_ops(l))],
                     !.users = [l \in DOMAIN c3.users |->
                                  IF l \in {new_label, new_not}
                                  THEN users_of(l) ELSE c3.users[l]]]

\* load_aig of "aag 3 2 0 1 1 / 2 / 4 / 6 / 6 4 2 / i0 x": the input i0 is
\* renamed when n3 = i1 AND i0 stands, and follows it as the gate 6
AAG_RENAMED_INPUT_CIRCUIT ==
  set_outputs(
    rename_gate(add_gates(aag_header(2), << Gate("AND", <<4, 3>>) >>),
                3, 0, 6, 0),
    <<5>>)

\* load_aig of "aag 2 1 0 1 1 / 2 / 4 / 4 2 3 / i0 x": the input and its
\* not_i0 are renamed when n2 = i0 AND not_i0 stands
AAG_RENAMED_NOT_CIRCUIT ==
  set_outputs(
    rename_gate(add_gates(aag_header(1),
                  << Gate("NOT", <<3>>), Gate("AND", <<3, 4>>) >>),
                3, 4, 6, 7),
    <<5>>)

NamedCircuits ==
  { AIG_XOR_CIRCUIT, DE_MORGAN_CIRCUIT, COMPLEX_UNSAT_CIRCUIT,
    TRIPLE_CONTRADICTION_CIRCUIT, UNSAT_CIRCUIT, AAG_AND_CIRCUIT,
    AAG_NAMED_OUTPUT_CIRCUIT, AAG_X_AND_FALSE_CIRCUIT,
    AAG_NOT_X_AND_FALSE_CIRCUIT, AAG_X_AND_X_CIRCUIT,
    AAG_NESTED_AND_CIRCUIT, AAG_RENAMED_INPUT_CIRCUIT,
    AAG_RENAMED_NOT_CIRCUIT }

Circuits ==
  UNION { { set_outputs(c, <<l>>) : l \in DOMAIN c.gates } :
          c \in grow(EmptyCircuit, {"AND"}) }
  \cup NamedCircuits

\* ------------------------------------------------------------------------
\* State
\* ------------------------------------------------------------------------

VARIABLES
  max_depth,        \* CubeAndConquerSolver.max_depth
  candidates_limit, \* CubeAndConquerSolver.candidates_limit
  trivial_result,   \* CubeAndConquerSolver._trivial_result: << >> is None
  pc,               \* "idle", "cubing", "conquer", "done", "died", ...
  circuit,          \* the circuit solve() was called with
  heap,             \* the CircuitSatInstance objects, by identity
  stack,            \* the active calls of _cube, innermost last
  cubes,            \* the leaves collected so far, then the list conquer walks
  ci,               \* the position of conquer's loop in cubes
  result,           \* what solve() returned: << >> until it returns
  sat_calls,        \* the calls of is_satisfiable made so far
  ext,              \* scripts/solve_external.py main(): its loop and answer
  last              \* the step just taken (history)

vars == <<max_depth, candidates_limit, trivial_result, pc, circuit, heap,
          stack, cubes, ci, result, sat_calls, ext, last>>

Frame(id, depth, fpc, label, first) ==
  [inst |-> id, depth |-> depth, pc |-> fpc, label |-> label, first |-> first]

Step(kind, id, label, value, status, parent, children) ==
  [kind |-> kind, inst |-> id, label |-> label, value |-> value,
   status |-> status, parent |-> parent, children |-> children]

NoStep == Step("none", 0, 0, FALSE, "OK", << >>, << >>)

\* CubeAndConquerSolver.__init__
Init ==
  /\ max_depth \in (0 - 1)..MaxDepth
  /\ candidates_limit \in 1..MaxCandidates
  /\ trivial_result = << >>
  /\ pc = "idle"
  /\ circuit = EmptyCircuit
  /\ heap = << >>
  /\ stack = << >>
  /\ cubes = << >>
  /\ ci = 1
  /\ result = << >>
  /\ sat_calls = 0
  /\ ext = [answer |-> FALSE, statuses |-> << >>, in_loop |-> TRUE,
            final |-> << >>]
  /\ last = NoStep

\* ------------------------------------------------------------------------
\* solve(): the entry, with the part of cube() before the recursion
\* ------------------------------------------------------------------------

\* the output folded to a constant: the original circuit is evaluated on
\* the all-False input, the trivial result is kept and returned, no cubes
Trivial(c, pre, answer) ==
  /\ output_size(pre) = 0
  /\ circuit' = c
  /\ trivial_result' = <<answer>>
  /\ result' = <<answer>>
  /\ pc' = "done"
  /\ last' = Step("trivial", 0, 0, FALSE, "OK", << >>, << >>)
  /\ UNCHANGED <<ext, max_depth, candidates_limit, heap, stack, cubes, ci,
                 sat_calls>>

\* a faulty trivial_answer: a circuit left without outputs taken for SAT
trivial_answer_sat(c) == PySatResult(TRUE, TRUE, << >>)

\* PySatResult(answer=is_true, model=None), is_true the output of the
\* original circuit on zero_inputs
trivial_answer(c) ==
  PySatResult(evaluate(c, [l \in Range(c.inputs) |-> FALSE])[1], TRUE, << >>)

SolveTrivial(c) ==
  /\ pc = "idle"
  /\ Trivial(c, apply_transformers(c), trivial_answer(c))

\* from_circuit returns None: cube() returns no cubes
RootConflict(c, pre, inst0, r) ==
  /\ r.none
  /\ circuit' = c
  /\ trivial_result' = << >>
  /\ pc' = "conquer"
  /\ last' = Step("root", 0, pre.outputs[1], TRUE, r.status,
                  <<inst0>>, << >>)
  /\ UNCHANGED <<ext, max_depth, candidates_limit, heap, stack, cubes, ci,
                 result, sat_calls>>

\* the root instance is built and _cube(instance, 0) is called
RootCube(c, pre, inst0, r) ==
  /\ ~r.none
  /\ circuit' = c
  /\ trivial_result' = << >>
  /\ heap' = 1 :> r.inst
  /\ stack' = << Frame(1, 0, "call", 0, << >>) >>
  /\ pc' = "cubing"
  /\ last' = Step("root", 1, pre.outputs[1], TRUE, r.status,
                  <<inst0>>, <<r.inst>>)
  /\ UNCHANGED <<ext, max_depth, candidates_limit, cubes, ci, result, sat_calls>>

Buildable(pre) == output_size(pre) # 0 /\ check_circuit(pre)

\* instance = cls(circuit); status = instance.assign(outputs[0], True)
ConflictFrom(c, pre, inst0) ==
  RootConflict(c, pre, inst0, from_instance(inst0, pre.outputs[1]))

CubeFrom(c, pre, inst0) ==
  RootCube(c, pre, inst0, from_instance(inst0, pre.outputs[1]))

ConflictOn(c, pre) == Buildable(pre) /\ ConflictFrom(c, pre, new_instance(pre))

CubeOn(c, pre) == Buildable(pre) /\ CubeFrom(c, pre, new_instance(pre))

SolveConflict(c) == pc = "idle" /\ ConflictOn(c, apply_transformers(c))

SolveCube(c) == pc = "idle" /\ CubeOn(c, apply_transformers(c))

\* ------------------------------------------------------------------------
\* _cube(instance, depth): one call per step, the recursion on `stack`
\* ------------------------------------------------------------------------

Top == stack[Len(stack)]

Pop == SubSeq(stack, 1, Len(stack) - 1)

AtCall == pc = "cubing" /\ stack # << >> /\ Top.pc = "call"

Stops == should_stop(heap[Top.inst], Top.depth, max_depth)

Selection == select_gate(heap, Top.inst, candidates_limit)

\* _should_stop holds, or _select_gate returns None: the instance is a leaf
Leaf(sel_none) ==
  /\ sel_none
  /\ cubes' = Append(cubes, Top.inst)
  /\ stack' = Pop
  /\ last' = Step("leaf", Top.inst, 0, FALSE, "OK", <<heap[Top.inst]>>, << >>)
  /\ UNCHANGED <<ext, max_depth, candidates_limit, trivial_result, pc, circuit,
                 heap, ci, result, sat_calls>>

CubeLeaf == AtCall /\ Leaf(Stops \/ Selection.kind = "none")

\* a faulty Forced: the value is assigned on a copy that is dropped, and
\* _cube(instance, depth) is called again
Forced_retries(sel, r) ==
  /\ r.status # "RAISED"
  /\ last' = Step("forced", Top.inst, sel.label, Truthy(sel.forced_value),
                  r.status, <<heap[Top.inst]>>, <<heap[Top.inst]>>)
  /\ UNCHANGED <<ext, max_depth, candidates_limit, trivial_result, pc,
                 circuit, heap, stack, cubes, ci, result, sat_calls>>

\* a faulty Forced: _cube(instance, depth) in place of depth + 1
Forced_same_depth(sel, r) ==
  /\ r.status # "RAISED"
  /\ heap' = r.heap
  /\ stack' = Append(Pop, Frame(Top.inst, Top.depth, "call", 0, << >>))
  /\ last' = Step("forced", Top.inst, sel.label, Truthy(sel.forced_value),
                  r.status, <<heap[Top.inst]>>, <<r.heap[Top.inst]>>)
  /\ UNCHANGED <<ext, max_depth, candidates_limit, trivial_result, pc,
                 circuit, cubes, ci, result, sat_calls>>

\* a forced gate: assigned in place, the status ignored, then
\* _cube(instance, depth + 1)
Forced(sel, r) ==
  /\ r.status # "RAISED"
  /\ heap' = r.heap
  /\ stack' = Append(Pop, Frame(Top.inst, Top.depth + 1, "call", 0, << >>))
  /\ last' = Step("forced", Top.inst, sel.label, Truthy(sel.forced_value),
                  r.status, <<heap[Top.inst]>>, <<r.heap[Top.inst]>>)
  /\ UNCHANGED <<ext, max_depth, candidates_limit, trivial_result, pc, circuit,
                 cubes, ci, result, sat_calls>>

\* a faulty ForcedOn: the value that conflicted in the lookahead is assigned
ForcedOn_conflicting_value(sel) ==
  /\ sel.kind = "forced"
  /\ Forced(sel, heap_assign(sel.heap, Top.inst, sel.label,
                             ~Truthy(sel.forced_value)))

ForcedOn(sel) ==
  /\ sel.kind = "forced"
  /\ Forced(sel, heap_assign(sel.heap, Top.inst, sel.label,
                             Truthy(sel.forced_value)))

CubeForced == AtCall /\ ~Stops /\ ForcedOn(Selection)

\* a faulty BranchFalse: _cube(branch, depth) in place of depth + 1
BranchFalse_same_depth(sel, r) ==
  /\ r.status # "RAISED"
  /\ heap' = r.heap
  /\ stack' = Pop \o
       << Frame(Top.inst, Top.depth, "second", sel.label, <<r.heap[r.id]>>),
          Frame(r.id, Top.depth, "call", 0, << >>) >>
  /\ last' = Step("branch_false", r.id, sel.label, FALSE, r.status,
                  <<heap[Top.inst]>>, <<r.heap[r.id]>>)
  /\ UNCHANGED <<ext, max_depth, candidates_limit, trivial_result, pc, circuit,
                 cubes, ci, result, sat_calls>>

\* a branching gate, value False: a deep copy is assigned and
\* _cube(branch, depth + 1) is called; the caller waits in the loop
BranchFalse(sel, r) ==
  /\ r.status # "RAISED"
  /\ heap' = r.heap
  /\ stack' = Pop \o
       << Frame(Top.inst, Top.depth, "second", sel.label, <<r.heap[r.id]>>),
          Frame(r.id, Top.depth + 1, "call", 0, << >>) >>
  /\ last' = Step("branch_false", r.id, sel.label, FALSE, r.status,
                  <<heap[Top.inst]>>, <<r.heap[r.id]>>)
  /\ UNCHANGED <<ext, max_depth, candidates_limit, trivial_result, pc, circuit,
                 cubes, ci, result, sat_calls>>

BranchFalseOn(sel) ==
  /\ sel.kind = "branch"
  /\ BranchFalse(sel, branch_assign(sel.heap, Top.inst, sel.label, FALSE))

CubeBranchFalse == AtCall /\ ~Stops /\ BranchFalseOn(Selection)

\* the same loop, value True, after the False branch has returned; the call
\* returns when that of the True branch does
BranchTrue(r) ==
  /\ r.status # "RAISED"
  /\ heap' = r.heap
  /\ stack' = Append(Pop, Frame(r.id, Top.depth + 1, "call", 0, << >>))
  /\ last' = Step("branch_true", r.id, Top.label, TRUE, r.status,
                  <<heap[Top.inst]>>, Top.first \o <<r.heap[r.id]>>)
  /\ UNCHANGED <<ext, max_depth, candidates_limit, trivial_result, pc, circuit,
                 cubes, ci, result, sat_calls>>

CubeBranchTrue ==
  /\ pc = "cubing" /\ stack # << >> /\ Top.pc = "second"
  /\ BranchTrue(branch_assign(heap, Top.inst, Top.label, TRUE))

\* cube() returns the list; solve() goes on to conquer(cubes)
CubeReturn ==
  /\ pc = "cubing" /\ stack = << >>
  /\ pc' = "conquer"
  /\ last' = Step("return", 0, 0, FALSE, "OK", << >>, << >>)
  /\ UNCHANGED <<ext, max_depth, candidates_limit, trivial_result, circuit, heap,
                 stack, cubes, ci, result, sat_calls>>

\* ------------------------------------------------------------------------
\* conquer(cubes): one iteration of the loop per step
\* ------------------------------------------------------------------------

InLoop == pc = "conquer" /\ ci <= Len(cubes)

\* a faulty ConquerSat: the result is kept and the loop goes on
ConquerSat_goes_on ==
  /\ InLoop
  /\ is_satisfiable(heap[cubes[ci]])
  /\ sat_calls' = sat_calls + 1
  /\ result' = << PySatResult(TRUE, FALSE, conquer_model(heap[cubes[ci]])) >>
  /\ ci' = ci + 1
  /\ last' = Step("sat", cubes[ci], 0, FALSE, "OK", << >>, << >>)
  /\ UNCHANGED <<ext, max_depth, candidates_limit, trivial_result, pc,
                 circuit, heap, stack, cubes>>

\* the cube is satisfiable: the model is built and returned
ConquerSat ==
  /\ InLoop
  /\ is_satisfiable(heap[cubes[ci]])
  /\ sat_calls' = sat_calls + 1
  /\ result' = << PySatResult(TRUE, FALSE, conquer_model(heap[cubes[ci]])) >>
  /\ pc' = "done"
  /\ last' = Step("sat", cubes[ci], 0, FALSE, "OK", << >>, << >>)
  /\ UNCHANGED <<ext, max_depth, candidates_limit, trivial_result, circuit, heap,
                 stack, cubes, ci>>

\* a faulty ConquerUnsat: the loop returns UNSAT at the first cube that is
ConquerUnsat_returns ==
  /\ InLoop
  /\ ~is_satisfiable(heap[cubes[ci]])
  /\ sat_calls' = sat_calls + 1
  /\ result' = << PySatResult(FALSE, TRUE, << >>) >>
  /\ pc' = "done"
  /\ last' = Step("unsat", cubes[ci], 0, FALSE, "OK", << >>, << >>)
  /\ UNCHANGED <<ext, max_depth, candidates_limit, trivial_result, circuit, heap,
                 stack, cubes, ci>>

\* the cube is unsatisfiable: on to the next one
ConquerUnsat ==
  /\ InLoop
  /\ ~is_satisfiable(heap[cubes[ci]])
  /\ sat_calls' = sat_calls + 1
  /\ ci' = ci + 1
  /\ last' = Step("unsat", cubes[ci], 0, FALSE, "OK", << >>, << >>)
  /\ UNCHANGED <<ext, max_depth, candidates_limit, trivial_result, pc, circuit,
                 heap, stack, cubes, result>>

\* the loop ends without a SAT cube
ConquerEnd ==
  /\ pc = "conquer" /\ ci > Len(cubes)
  /\ result' = << PySatResult(FALSE, TRUE, << >>) >>
  /\ pc' = "done"
  /\ last' = Step("end", 0, 0, FALSE, "OK", << >>, << >>)
  /\ UNCHANGED <<ext, max_depth, candidates_limit, trivial_result, circuit, heap,
                 stack, cubes, ci, sat_calls>>

Next ==
  \/ \E c \in Circuits : SolveTrivial(c)
  \/ \E c \in Circuits : SolveConflict(c)
  \/ \E c \in Circuits : SolveCube(c)
  \/ CubeLeaf
  \/ CubeForced
  \/ CubeBranchFalse
  \/ CubeBranchTrue
  \/ CubeReturn
  \/ ConquerSat
  \/ ConquerUnsat
  \/ ConquerEnd

Spec == Init /\ [][Next]_vars

\* ------------------------------------------------------------------------
\* scripts/solve_external.py: main() with an external solver, the cubes
\* of cube() given to it one by one as DIMACS files
\* ------------------------------------------------------------------------

\* exit codes a solver can end with besides 10 and 20
OtherCodes == {0, 1}

\* what a run of the solver on the CNF of inst can end with: the exit code
\* of a decision (10 for SAT, 20 for UNSAT), another exit code, a timeout,
\* or no run at all: subprocess.run raises an OSError (FileNotFoundError,
\* PermissionError) when the solver cannot be started
Outcomes(inst) ==
  { [kind |-> "exit", code |-> IF is_satisfiable(inst) THEN 10 ELSE 20] }
    \cup { [kind |-> "exit", code |-> n] : n \in OtherCodes }
    \cup { [kind |-> "timeout", code |-> 0] }
    \cup { [kind |-> "oserror", code |-> 0] }

\* run_external_solver: True, False or None; "RAISED" is the OSError, which
\* only TimeoutExpired being caught, leaves the function
run_external_solver(outcome) ==
  IF outcome.kind = "oserror" THEN "RAISED"
  ELSE IF outcome.kind = "timeout" THEN "None"
  ELSE IF outcome.code = 10 THEN "True"
  ELSE IF outcome.code = 20 THEN "False"
  ELSE "None"

\* {True: "SAT", False: "UNSAT", None: "UNKNOWN"}[sat]
status_str(sat) ==
  IF sat = "True" THEN "SAT" ELSE IF sat = "False" THEN "UNSAT" ELSE "UNKNOWN"

\* cnc._trivial_result is not None: "Trivially SAT" or "Trivially UNSAT"
\* is printed and main returns
MainTrivialOn(c, pre, answer) ==
  /\ output_size(pre) = 0
  /\ circuit' = c
  /\ trivial_result' = <<answer>>
  /\ ext' = [ext EXCEPT !.in_loop = FALSE,
                        !.final = << IF answer.answer THEN "Trivially SAT"
                                     ELSE "Trivially UNSAT" >>]
  /\ pc' = "done"
  /\ last' = Step("trivial", 0, 0, FALSE, "OK", << >>, << >>)
  /\ UNCHANGED <<max_depth, candidates_limit, heap, stack, cubes, ci,
                 result, sat_calls>>

MainTrivial(c) ==
  /\ pc = "idle"
  /\ MainTrivialOn(c, apply_transformers(c), trivial_answer(c))

MainInLoop == pc = "conquer" /\ ext.in_loop /\ ci <= Len(cubes)

\* one iteration of the loop: the solver is run on the cube, its status is
\* printed, and with sat is True the answer is set and the loop left
MainRunAs(sat) ==
  /\ ext' = [ext EXCEPT !.statuses = Append(@, status_str(sat)),
                        !.answer = IF sat = "True" THEN TRUE ELSE @,
                        !.in_loop = sat # "True"]
  /\ ci' = IF sat = "True" THEN ci ELSE ci + 1
  /\ last' = Step("run", cubes[ci], 0, FALSE, status_str(sat),
                  << >>, << >>)
  /\ UNCHANGED <<max_depth, candidates_limit, trivial_result, pc, circuit,
                 heap, stack, cubes, result, sat_calls>>

MainRun ==
  /\ MainInLoop
  /\ \E outcome \in Outcomes(heap[cubes[ci]]) :
       /\ run_external_solver(outcome) # "RAISED"
       /\ MainRunAs(run_external_solver(outcome))

\* the exception of run_external_solver ends main() inside the loop: no
\* status of the cube and no answer is printed
MainDies ==
  /\ MainInLoop
  /\ \E outcome \in Outcomes(heap[cubes[ci]]) :
       run_external_solver(outcome) = "RAISED"
  /\ ext' = [ext EXCEPT !.in_loop = FALSE]
  /\ pc' = "died"
  /\ last' = Step("run", cubes[ci], 0, FALSE, "RAISED", << >>, << >>)
  /\ UNCHANGED <<max_depth, candidates_limit, trivial_result, circuit, heap,
                 stack, cubes, ci, result, sat_calls>>

\* final = "SAT" if answer else "UNSAT"
final(answer, statuses) == IF answer THEN "SAT" ELSE "UNSAT"

\* after the loop: the answer is printed
MainAnswer ==
  /\ pc = "conquer"
  /\ ~ext.in_loop \/ ci > Len(cubes)
  /\ ext' = [ext EXCEPT !.in_loop = FALSE,
                        !.final = << final(ext.answer, ext.statuses) >>]
  /\ pc' = "done"
  /\ last' = Step("answer", 0, 0, FALSE, "OK", << >>, << >>)
  /\ UNCHANGED <<max_depth, candidates_limit, trivial_result, circuit, heap,
                 stack, cubes, ci, result, sat_calls>>

NextExternal ==
  \/ \E c \in Circuits : MainTrivial(c)
  \/ \E c \in Circuits : SolveConflict(c)
  \/ \E c \in Circuits : SolveCube(c)
  \/ CubeLeaf
  \/ CubeForced
  \/ CubeBranchFalse
  \/ CubeBranchTrue
  \/ CubeReturn
  \/ MainRun
  \/ MainDies
  \/ MainAnswer

SpecExternal == Init /\ [][NextExternal]_vars

\* ------------------------------------------------------------------------
\* CircuitSatInstance(circuit) called on a circuit as it is, with no
\* simplifier run before: circuits with constants, and gates of other types
\* and arities
\* ------------------------------------------------------------------------

\* gates _check_circuit has to refuse, over three inputs
MalformedGates ==
  { Gate("AND", <<1>>), Gate("AND", <<1, 2, 3>>), Gate("AND", << >>),
    Gate("NOT", <<1, 2>>), Gate("NOT", << >>),
    Gate("OR", <<1, 2>>), Gate("XOR", <<1, 2>>), Gate("IFF", <<1>>) }

Malformed ==
  { set_outputs(emplace_gate(bare_circuit(3), 4, g.gate_type, g.operands),
                <<4>>) : g \in MalformedGates }

\* the circuits the constructor is called with
RawCircuits ==
  UNION { { set_outputs(c, <<l>>) : l \in DOMAIN c.gates } : c \in Circuits }
  \cup Malformed

\* __init__ returns: the instance is built, with its CNF and gates_config
ConstructBuilds(c) ==
  /\ pc = "idle"
  /\ check_circuit(c)
  /\ circuit' = c
  /\ heap' = 1 :> new_instance(c)
  /\ pc' = "built"
  /\ last' = Step("construct", 1, 0, FALSE, "OK", << >>, << >>)
  /\ UNCHANGED <<ext, max_depth, candidates_limit, trivial_result, stack,
                 cubes, ci, result, sat_calls>>

\* _check_circuit raises ValueError: no CNF, no instance
ConstructRaises(c) ==
  /\ pc = "idle"
  /\ ~check_circuit(c)
  /\ circuit' = c
  /\ pc' = "built"
  /\ last' = Step("construct", 0, 0, FALSE, "RAISED", << >>, << >>)
  /\ UNCHANGED <<ext, max_depth, candidates_limit, trivial_result, heap,
                 stack, cubes, ci, result, sat_calls>>

NextConstruct ==
  \/ \E c \in RawCircuits : ConstructBuilds(c)
  \/ \E c \in RawCircuits : ConstructRaises(c)

SpecConstruct == Init /\ [][NextConstruct]_vars

\* ------------------------------------------------------------------------
\* One solver object called again and again: every call of cube() and of
\* solve() is one step, from its first line to its return.  The fields of
\* the object, max_depth, candidates_limit and _trivial_result, are what one
\* call leaves to the next
\* ------------------------------------------------------------------------

\* largest number of gates of a circuit of these calls
MaxCallGates == 1

\* circuits cube() raises on: two outputs, one output listed twice, no
\* output, a gate of three operands, a gate of a type the instance refuses
UnfitCircuits ==
  { set_outputs(bare_circuit(2), <<1, 2>>),
    set_outputs(bare_circuit(2), <<1, 1>>),
    set_outputs(bare_circuit(1), << >>),
    set_outputs(add_gates(bare_circuit(3), << Gate("AND", <<1, 2, 3>>) >>),
                <<4>>),
    set_outputs(add_gates(bare_circuit(3),
                  << Gate("AND", <<1, 2, 3>>), Gate("AND", <<1, 2>>) >>),
                <<5>>),
    set_outputs(add_gates(bare_circuit(2), << Gate("OR", <<1, 2>>) >>),
                <<3>>) }

CallCircuits ==
  { c \in Circuits : size(c) <= MaxCallGates } \cup UnfitCircuits

\* cube(c) raises: the assert on output_size, the ValueError of
\* RemoveConstantGates, or that of the constructor in from_circuit
cube_raises(c) ==
  IF output_size(c) # 1 \/ ~binary_at_most(c) THEN TRUE
  ELSE /\ output_size(apply_transformers(c)) # 0
       /\ ~check_circuit(apply_transformers(c))

\* conquer(cubes) from the cube i on
RECURSIVE conquer_from(_, _)
conquer_from(cs, i) ==
  IF i > Len(cs) THEN PySatResult(FALSE, TRUE, << >>)
  ELSE IF is_satisfiable(cs[i])
  THEN PySatResult(TRUE, FALSE, conquer_model(cs[i]))
  ELSE conquer_from(cs, i + 1)

conquer(cs) == conquer_from(cs, 1)

\* self._trivial_result when cube(c) returns, `before` being its value when
\* the call is made: assigned where the simplified circuit has no output,
\* and not touched anywhere else
marker_after_cube(c, pre, before) ==
  IF output_size(pre) = 0 THEN <<trivial_answer(c)>> ELSE before

\* the call has returned the cubes cs
Returned(kind, c, cs, marker, res) ==
  /\ pc \in {"idle", "returned"}
  /\ circuit' = c
  /\ heap' = [i \in 1..Len(cs) |-> cs[i]]
  /\ cubes' = [i \in 1..Len(cs) |-> i]
  /\ trivial_result' = marker
  /\ result' = res
  /\ pc' = "returned"
  /\ last' = Step(kind, 0, 0, FALSE, "OK", << >>, << >>)
  /\ UNCHANGED <<ext, max_depth, candidates_limit, stack, ci, sat_calls>>

\* the call has raised: nothing is returned, and the marker is what the
\* lines before the exception made of it
Raised(kind, c, marker) ==
  /\ pc \in {"idle", "returned"}
  /\ circuit' = c
  /\ trivial_result' = marker
  /\ pc' = "returned"
  /\ last' = Step(kind, 0, 0, FALSE, "RAISED", << >>, << >>)
  /\ UNCHANGED <<ext, max_depth, candidates_limit, heap, stack, cubes, ci,
                 result, sat_calls>>

\* solver.cube(c) raises before _trivial_result is assigned
CallCubeRaises(c) == cube_raises(c) /\ Raised("cube", c, trivial_result)

\* solver.solve(c) raises in cube(c), after `self._trivial_result = None`
CallSolveRaises(c) == cube_raises(c) /\ Raised("solve", c, << >>)

\* cubes = solver.cube(c)
CallCube(c) ==
  /\ ~cube_raises(c)
  /\ Returned("cube", c, cube(c, max_depth, candidates_limit),
              marker_after_cube(c, apply_transformers(c), trivial_result),
              result)

\* solve(c) after `self._trivial_result = None` and `cubes = self.cube(c)`
SolveFrom(c, cs, marker) ==
  Returned("solve", c, cs, marker,
           IF marker # << >> THEN marker ELSE <<conquer(cs)>>)

\* result = solver.solve(c)
CallSolve(c) ==
  /\ ~cube_raises(c)
  /\ SolveFrom(c, cube(c, max_depth, candidates_limit),
               marker_after_cube(c, apply_transformers(c), << >>))

NextCalls ==
  \/ \E c \in CallCircuits : CallCube(c)
  \/ \E c \in CallCircuits : CallSolve(c)
  \/ \E c \in CallCircuits : CallCubeRaises(c)
  \/ \E c \in CallCircuits : CallSolveRaises(c)

SpecCalls == Init /\ [][NextCalls]_vars

\* ------------------------------------------------------------------------
\* The simplifier on its own: RemoveConstantGates applied to a circuit, and
\* once more to the circuit it returned.  The transformer takes any circuit
\* of cirbo, so the gates of two operands are of every type here; heap
\* holds the circuits returned, in the order of the calls
\* ------------------------------------------------------------------------

\* the circuits given to the transformer: every circuit of at most MaxGates
\* gates with any gate as the output, the circuits given to the solver,
\* a negation by XOR, NAND and LNOT of a gate that is a NOT already, and
\* circuits with a gate of three operands
SimplifyCircuits ==
  UNION { { set_outputs(c, <<l>>) : l \in DOMAIN c.gates } :
          c \in grow(EmptyCircuit, BinaryTypes) }
  \cup NamedCircuits
  \cup { set_outputs(
           add_gates(bare_circuit(1),
             << Gate("NOT", <<1>>), Gate("ALWAYS_TRUE", << >>),
                Gate(t, <<2, 3>>), Gate("AND", <<4, 1>>) >>),
           <<5>>) : t \in {"XOR", "NAND", "LNOT", "GT"} }
  \cup { set_outputs(
           add_gates(bare_circuit(3),
             << Gate("AND", <<1, 2, 3>>), Gate("AND", <<1, 2>>) >>),
           <<l>>) : l \in {4, 5} }

\* the transformer has no parameters: those of the solver are held fixed
InitSimplify ==
  Init /\ max_depth = MaxDepth /\ candidates_limit = MaxCandidates

\* once = RemoveConstantGates().transform(c)
Simplify(c) ==
  /\ pc = "idle"
  /\ binary_at_most(c)
  /\ circuit' = c
  /\ heap' = << RemoveConstantGates(c) >>
  /\ pc' = "simplified"
  /\ last' = Step("simplify", 1, 0, FALSE, "OK", << >>, << >>)
  /\ UNCHANGED <<ext, max_depth, candidates_limit, trivial_result, stack,
                 cubes, ci, result, sat_calls>>

\* the guard on the number of operands raises ValueError: no circuit
SimplifyRaises(c) ==
  /\ pc = "idle"
  /\ ~binary_at_most(c)
  /\ circuit' = c
  /\ pc' = "simplified"
  /\ last' = Step("simplify", 0, 0, FALSE, "RAISED", << >>, << >>)
  /\ UNCHANGED <<ext, max_depth, candidates_limit, trivial_result, heap,
                 stack, cubes, ci, result, sat_calls>>

\* twice = RemoveConstantGates().transform(once)
SimplifyAgain ==
  /\ pc = "simplified"
  /\ Len(heap) = 1
  /\ binary_at_most(heap[1])
  /\ heap' = Append(heap, RemoveConstantGates(heap[1]))
  /\ pc' = "simplified_twice"
  /\ last' = Step("simplify", 2, 0, FALSE, "OK", << >>, << >>)
  /\ UNCHANGED <<ext, max_depth, candidates_limit, trivial_result, circuit,
                 stack, cubes, ci, result, sat_calls>>

NextSimplify ==
  \/ \E c \in SimplifyCircuits : Simplify(c)
  \/ \E c \in SimplifyCircuits : SimplifyRaises(c)
  \/ SimplifyAgain

SpecSimplify == InitSimplify /\ [][NextSimplify]_vars

\* ------------------------------------------------------------------------
\* solve() against the truth table
\* ------------------------------------------------------------------------

Done == pc = "done"

Answer == result[1].answer

\* C1: when solve(C) has returned, its answer is True exactly when some
\* assignment of the inputs of C makes the output of C true, whatever
\* max_depth and candidates_limit are
C1_AnswerIsGroundTruth ==
  Done => (Answer <=> satisfying_inputs(circuit) # {})

\* a run of an unsatisfiable circuit that ends after the SAT backend has
\* refuted more than one cube
C1_Witness ==
  /\ Done
  /\ last.kind = "end"
  /\ sat_calls > 1
  /\ ~Answer
  /\ satisfying_inputs(circuit) = {}


\* the input assignments of c that a model list describes: the input of
\* variable v is true where the list holds +v and false where it holds -v
described_by(c, gates_config, model) ==
  { vals \in input_assignments(c) :
      \A l \in Range(c.inputs) \cap DOMAIN gates_config :
        /\ model[gates_config[l].idx] = gates_config[l].idx => vals[l]
        /\ model[gates_config[l].idx] = 0 - gates_config[l].idx => ~vals[l] }

satisfied_by(c, gates_config, model) ==
  \A vals \in described_by(c, gates_config, model) : evaluate(c, vals)[1]

\* C2: for a satisfiable C, solve(C) returns a model that is not None, and
\* the inputs set as the model says make the output of C true
C2_ModelSatisfies ==
  (Done /\ satisfying_inputs(circuit) # {}) =>
     /\ ~result[1].model_none
     /\ satisfied_by(circuit, heap[last.inst].gates_config, result[1].model)

\* the slots of a model against the gates_config it was built from
slots_as_stated(gates_config, model) ==
  \A l \in DOMAIN gates_config :
    /\ (gates_config[l].is_input /\ gates_config[l].value = "True")
          => model[gates_config[l].idx] = gates_config[l].idx
    /\ (gates_config[l].is_input /\ gates_config[l].value = "False")
          => model[gates_config[l].idx] = 0 - gates_config[l].idx
    /\ (~gates_config[l].is_input \/ gates_config[l].value = "None")
          => model[gates_config[l].idx] = 0

\* C3: in the model conquer builds for a SAT cube, the slot of an INPUT
\* assigned during cubing holds +idx or -idx by its value, and the slot of
\* every other gate and of every INPUT never assigned holds 0
C3_ModelSlots ==
  (Done /\ last.kind = "sat") =>
     slots_as_stated(heap[last.inst].gates_config, result[1].model)

\* ------------------------------------------------------------------------
\* The two ways out of cube() before the recursion
\* ------------------------------------------------------------------------

\* the constant the simplifier folded the output to
folded(c, st) == st.const_map[resolve_label(st.label_remap, c.outputs[1])]

folded_constant(c) == folded(c, transform_all(c))

\* C4: when the simplified circuit has no outputs, no instance is built, no
\* cube is returned, the SAT backend is not called, and the answer is True
\* exactly when the constant the output folded to is true
C4_TrivialPath ==
  (pc # "idle" /\ output_size(apply_transformers(circuit)) = 0) =>
     /\ Done
     /\ heap = << >>
     /\ cubes = << >>
     /\ sat_calls = 0
     /\ Answer = folded_constant(circuit)

\* a circuit with inputs whose output folds to a constant, answered
C4_Witness ==
  /\ Done
  /\ last.kind = "trivial"
  /\ input_size(circuit) > 0
  /\ Answer

conflicts_at_root(pre) ==
  /\ Buildable(pre)
  /\ from_circuit(pre).status = "CONFLICT"

\* C5: when the assignment of True to the output conflicts at construction,
\* no instance is kept, cube returns no cubes, and solve answers
\* (False, None) without a call of the SAT backend
C5_RootConflict ==
  (pc # "idle" /\ conflicts_at_root(apply_transformers(circuit))) =>
     /\ heap = << >>
     /\ cubes = << >>
     /\ sat_calls = 0
     /\ pc \in {"conquer", "done"}
     /\ Done => result = << PySatResult(FALSE, TRUE, << >>) >>

\* solve has returned after a conflict at construction
C5_Witness ==
  /\ Done
  /\ last.kind = "end"
  /\ sat_calls = 0
  /\ heap = << >>
  /\ result = << PySatResult(FALSE, TRUE, << >>) >>

\* ------------------------------------------------------------------------
\* The cube tree
\* ------------------------------------------------------------------------

\* the satisfying assignments of the CNF of an instance
sat_of(inst) == sat_models(inst.cnf, num_vars(inst))

\* C6: the satisfying assignments of the CNFs of the children of a node of
\* the cube tree are, together, those of the CNF of the node: the False and
\* the True branch of a branching node, the one child of a forced node
C6_CubeCompleteness ==
  /\ last.kind = "forced" =>
        sat_of(last.children[1]) = sat_of(last.parent[1])
  /\ last.kind = "branch_true" =>
        sat_of(last.children[1]) \cup sat_of(last.children[2])
          = sat_of(last.parent[1])

\* a branching node with two satisfiable children
C6_Witness ==
  /\ last.kind = "branch_true"
  /\ sat_of(last.children[1]) # {}
  /\ sat_of(last.children[2]) # {}
  /\ sat_of(last.children[1]) # sat_of(last.parent[1])

\* the satisfying assignments of a clause list with the unit clause idx = v
sat_with_unit(cnf, n, idx, v) ==
  { A \in sat_models(cnf, n) : (idx \in A) = v }

\* assign(L, v) with the result r on the instance inst, against the CNF of
\* inst conjoined with L = v
assign_agrees(inst, L, v, r) ==
  /\ r.status = "OK" =>
       sat_of(r.inst)
         = sat_with_unit(inst.cnf, num_vars(inst), inst.gates_config[L].idx, v)
  /\ r.status = "CONFLICT" =>
       sat_with_unit(inst.cnf, num_vars(inst), inst.gates_config[L].idx, v)
         = {}

\* the instances the last step made: the root, the child of a forced node,
\* the branches of a branching node
Made == { last.children[i] : i \in DOMAIN last.children }

\* C7: on every instance of the cube tree, for every label L of its circuit
\* and every value v, an assign(L, v) that returns OK leaves a CNF with the
\* satisfying assignments of the CNF before and L = v, and where it returns
\* CONFLICT the CNF before and L = v has none
C7_AssignIsUnit ==
  \A inst \in Made :
    \A L \in DOMAIN inst.circuit.gates :
      \A v \in BOOLEAN : assign_agrees(inst, L, v, assign(inst, L, v))

\* a satisfiable instance with a label that conflicts with True and is
\* assigned False with OK
C7_Witness ==
  \E inst \in Made :
    /\ sat_of(inst) # {}
    /\ \E L \in DOMAIN inst.circuit.gates :
         /\ assign(inst, L, TRUE).status = "CONFLICT"
         /\ assign(inst, L, FALSE).status = "OK"

\* ------------------------------------------------------------------------
\* Ownership of the instances
\* ------------------------------------------------------------------------

\* the lookahead of _select_gate on the instance of the innermost call
\* leaves every object as it was
LookaheadPure == (AtCall /\ ~Stops) => Selection.heap = heap

\* a call that waits for its False branch holds the instance it gave a copy
\* of: the branching gate is still a gate of it, not a constant
SiblingsApart ==
  \A i \in DOMAIN stack :
    stack[i].pc = "second" =>
      /\ stack[i].label \in DOMAIN heap[stack[i].inst].circuit.gates
      /\ heap[stack[i].inst].circuit.gates[stack[i].label].gate_type
           \notin {"ALWAYS_TRUE", "ALWAYS_FALSE"}
      /\ heap[stack[i].inst] # stack[i].first[1]

\* a step changes no object but the one a forced assignment is made on
OnlyForcedMutates ==
  \A id \in DOMAIN heap :
    \/ heap'[id] = heap[id]
    \/ last'.kind = "forced" /\ last'.inst = id

\* C8: the assignments made on a deep copy leave the circuit, the clause
\* list and the gates_config of the original as they were: the lookahead of
\* _select_gate changes nothing of the instance it is given, the branches
\* of a branching gate are assigned on copies and the one does not see the
\* assignment of the other
C8_CopiesAreOwned ==
  /\ [](LookaheadPure /\ SiblingsApart)
  /\ [][OnlyForcedMutates]_vars

\* both branches of a branching gate made, the parent and the False branch
\* unchanged by the True branch
C8_Witness ==
  /\ last.kind = "branch_true"
  /\ heap[stack[Len(stack)].inst] = last.children[2]
  /\ last.children[1] # last.children[2]
  /\ \E id \in DOMAIN heap : heap[id] = last.parent[1]
  /\ \E id \in DOMAIN heap : heap[id] = last.children[1]

\* the variable numbering of an instance
index_of(inst) ==
  [var_map |-> inst.var_map,
   idx     |-> [l \in DOMAIN inst.gates_config |-> inst.gates_config[l].idx]]

\* the numbering of inst is kept by assign(L, v), whose result is r
index_kept(inst, r) == index_of(r.inst) = index_of(inst)

\* C9: the variable of every label, in gates_config and in the map of the
\* Cnf, is the one given at construction in every instance of the cube
\* tree, and no assign and no simplify changes it
C9_IndexFixed ==
  /\ \A id \in DOMAIN heap :
       index_of(heap[id]) = index_of(new_instance(apply_transformers(circuit)))
  /\ \A inst \in Made :
       /\ index_of(simplify(inst)) = index_of(inst)
       /\ \A L \in DOMAIN inst.circuit.gates :
            \A v \in BOOLEAN : index_kept(inst, assign(inst, L, v))

\* a cube tree with a branch whose circuit lost gates the construction
\* numbered
C9_Witness ==
  /\ last.kind = "branch_true"
  /\ \E id \in DOMAIN heap :
       size(heap[id].circuit) + 2 < Cardinality(DOMAIN heap[id].var_map)
  /\ \E l \in DOMAIN heap[1].var_map : heap[1].var_map[l] # l

\* the clause list of inst is a prefix of the one assign leaves, r its
\* result with any status
clauses_kept(inst, r) == IsPrefix(inst.cnf, r.inst.cnf)

\* C10: the clause list of an instance only grows at its end: the list
\* before an assign, OK or CONFLICT, or a simplify is a prefix of the list
\* after, and the list of a child of the cube tree starts with the list of
\* its parent
C10_AppendOnly ==
  \A inst \in Made :
    /\ \A i \in DOMAIN last.parent : IsPrefix(last.parent[i].cnf, inst.cnf)
    /\ IsPrefix(inst.cnf, simplify(inst).cnf)
    /\ \A L \in DOMAIN inst.circuit.gates :
         \A v \in BOOLEAN : clauses_kept(inst, assign(inst, L, v))

conflict_after_clauses(inst, r) ==
  r.status = "CONFLICT" /\ Len(r.inst.cnf) > Len(inst.cnf)

\* a child of the cube tree with more clauses than its parent, on which an
\* assign conflicts after it has added clauses
C10_Witness ==
  /\ last.kind = "forced"
  /\ Len(last.children[1].cnf) > Len(last.parent[1].cnf)
  /\ \E L \in DOMAIN last.parent[1].circuit.gates :
       \E v \in BOOLEAN :
         conflict_after_clauses(last.parent[1], assign(last.parent[1], L, v))

\* ------------------------------------------------------------------------
\* The depth of the cube tree
\* ------------------------------------------------------------------------

\* cube() has returned
Cubed == pc \in {"conquer", "done"}

\* the root instance as the one cube
root_is_the_cube(r) ==
  /\ cubes = <<1>>
  /\ DOMAIN heap = {1}
  /\ heap[1] = r.inst

\* the original statement of C11: with max_depth = 0, cube() returns one
\* cube, the root instance as the assignment of True to the output left it
C11_DepthZeroOneCube ==
  (max_depth = 0 /\ Cubed) =>
     /\ Len(cubes) = 1
     /\ root_is_the_cube(from_circuit(apply_transformers(circuit)))

\* what cube() returns at depth 0 for the simplified circuit pre
root_or_nothing(r) ==
  IF r.none THEN cubes = << >> /\ heap = << >> ELSE root_is_the_cube(r)

depth_zero_cubes(pre) ==
  IF output_size(pre) = 0 THEN cubes = << >> /\ heap = << >>
  ELSE root_or_nothing(from_circuit(pre))

\* C11: with max_depth = 0, where cube() builds a root instance (the output
\* does not fold to a constant and True on the output does not conflict) it
\* returns one cube, that root instance as the assignment left it, nothing
\* branched or forced; where it builds none it returns no cube
C11_DepthZeroRootCube ==
  (max_depth = 0 /\ Cubed) => depth_zero_cubes(apply_transformers(circuit))

\* depth 0 returned the root of a circuit that a deeper cube stage branches
C11_Witness ==
  /\ max_depth = 0
  /\ pc = "conquer"
  /\ cubes = <<1>>
  /\ select_gate(heap, 1, candidates_limit).kind = "branch"

\* the instances of the cubes the run has returned
returned_cubes == [i \in DOMAIN cubes |-> heap[cubes[i]]]

\* the cubes of the run against the list cube() returns with max_depth = d:
\* not more in that list where d is lower, not fewer where d is higher, and
\* the same list where d is the max_depth of the run
ordered_with(d, other) ==
  /\ d <= max_depth => Len(other) <= Len(cubes)
  /\ d >= max_depth => Len(cubes) <= Len(other)
  /\ d = max_depth => other = returned_cubes

\* C12: for a circuit and a candidates_limit, cube() returns with a higher
\* max_depth at least as many cubes as with a lower one
C12_CubesGrowWithDepth ==
  Cubed =>
    \A d \in (0 - 1)..MaxDepth :
      ordered_with(d, cube(circuit, d, candidates_limit))

\* a run at the highest depth with more cubes than depth 0 gives
C12_Witness ==
  /\ Cubed
  /\ max_depth = MaxDepth
  /\ Len(cubes) > Len(cube(circuit, 0, candidates_limit))
  /\ Len(cube(circuit, 0, candidates_limit)) = 1

\* the most cubes a pending call of _cube can still return: 2^(d - depth)
\* for a call not yet made, half of it for one waiting for its True branch
cubes_of_frame(f) ==
  IF f.depth > max_depth THEN 1
  ELSE IF f.pc = "call" THEN 2 ^ (max_depth - f.depth)
  ELSE 2 ^ (max_depth - f.depth - 1)

RECURSIVE cubes_to_come(_)
cubes_to_come(frames) ==
  IF frames = << >> THEN 0
  ELSE cubes_of_frame(Head(frames)) + cubes_to_come(Tail(frames))

\* C13: with max_depth = d >= 0, cube() returns at most 2^d cubes: no call
\* of _cube is deeper than d, each descent being made at depth + 1
C13_AtMostTwoToDepth ==
  max_depth >= 0 =>
    /\ Len(cubes) <= 2 ^ max_depth
    /\ \A i \in DOMAIN stack : stack[i].depth <= max_depth
    /\ Len(cubes) + cubes_to_come(stack) <= 2 ^ max_depth

\* a run that returned 2^d cubes for d = 2
C13_Witness ==
  /\ Cubed
  /\ max_depth = 2
  /\ Len(cubes) = 4

\* ------------------------------------------------------------------------
\* The external dispatcher
\* ------------------------------------------------------------------------

\* the statuses printed for the cubes the solver was run on
Statuses == { ext.statuses[i] : i \in DOMAIN ext.statuses }

\* C14: the dispatcher answers UNSAT only where the run of the solver on
\* every cube returned UNSAT; a cube with an exit code other than 10 and 20,
\* or timed out, is UNKNOWN and does not end the loop, and a run with no
\* SAT cube and an UNKNOWN one is not answered UNSAT
C14_UnsatOnlyIfAllUnsat ==
  /\ (last.kind = "run" /\ last.status = "UNKNOWN") => ext.in_loop
  /\ ext.final = <<"UNSAT">> =>
       /\ Len(ext.statuses) = Len(cubes)
       /\ Statuses \subseteq {"UNSAT"}

\* ------------------------------------------------------------------------
\* The order of conquer
\* ------------------------------------------------------------------------

\* the cubes before position n were answered not-SAT
refuted_before(n) ==
  \A j \in 1..(n - 1) : ~is_satisfiable(heap[cubes[j]])

\* where conquer stands: the cubes before ci were submitted, one call each,
\* and answered not-SAT; a SAT answer is that of cubes[ci], the last one
\* submitted; UNSAT is returned with every cube submitted
ConquerInOrder ==
  /\ pc = "conquer" => sat_calls = ci - 1 /\ refuted_before(ci)
  /\ (Done /\ last.kind = "sat") =>
        /\ sat_calls = ci
        /\ last.inst = cubes[ci]
        /\ is_satisfiable(heap[cubes[ci]])
        /\ refuted_before(ci)
        /\ Answer
  /\ (Done /\ last.kind = "end") =>
        /\ sat_calls = Len(cubes)
        /\ refuted_before(Len(cubes) + 1)
        /\ ~Answer

\* a call of the backend is made in conquer, on the cube next in the list,
\* and none is made once solve has returned
SubmitsNext ==
  sat_calls' # sat_calls =>
     /\ pc = "conquer"
     /\ sat_calls' = sat_calls + 1
     /\ last'.inst = cubes[sat_calls']

\* C15: conquer gives the cubes to the SAT backend in the order of the
\* list and stops at the first one answered SAT: none after it is
\* submitted and the result is SAT; the result is UNSAT only after every
\* cube of the list was submitted and answered not-SAT
C15_ConquerInListOrder ==
  /\ []ConquerInOrder
  /\ [][SubmitsNext]_vars

\* SAT returned at a cube after a refuted one, with cubes left unsubmitted
C15_Witness ==
  /\ Done
  /\ last.kind = "sat"
  /\ ci >= 2
  /\ ci < Len(cubes)

\* ------------------------------------------------------------------------
\* The Tseytin encoding
\* ------------------------------------------------------------------------

\* the value an assignment A of the variables gives the gate of a label
var_value(enc, A, label) == enc.var_map[label] \in A

\* the inputs of c as A sets them
inputs_of(c, enc, A) == [l \in Range(c.inputs) |-> var_value(enc, A, l)]

\* A gives the variable of every encoded gate the value the gate computes
\* from the variables of its operands
gate_consistent(c, enc, A) ==
  \A l \in DOMAIN enc.var_map :
    c.gates[l].gate_type # "INPUT" =>
      var_value(enc, A, l)
        = operator(c.gates[l].gate_type,
                   [i \in DOMAIN c.gates[l].operands |->
                      var_value(enc, A, c.gates[l].operands[i])])

\* the Cnf enc of the circuit c against the truth table of c
tseytin_sound(c, enc) ==
  /\ sat_models(enc.cnf, Cardinality(DOMAIN enc.var_map)) # {}
       <=> satisfying_inputs(c) # {}
  /\ \A A \in sat_models(enc.cnf, Cardinality(DOMAIN enc.var_map)) :
       /\ gate_consistent(c, enc, A)
       /\ inputs_of(c, enc, A) \in satisfying_inputs(c)

encoded_soundly(c) ==
  (output_size(c) = 1 /\ encodable(c))
    => tseytin_sound(c, tseytin_transformation(c))

\* C16: the CNF of tseytin_transformation(C), C with one output, is
\* satisfiable exactly when some assignment of the inputs makes the output
\* of C true, and every satisfying assignment of it gives the variable of
\* each encoded gate the value of the gate on the variables of its operands
C16_TseytinEquisatisfiable ==
  pc # "idle" =>
     /\ encoded_soundly(circuit)
     /\ encoded_soundly(apply_transformers(circuit))

\* a CNF with an AND gate encoded and more than one satisfying assignment
several_models(c, enc) ==
  /\ \E l \in DOMAIN enc.var_map : c.gates[l].gate_type = "AND"
  /\ Cardinality(sat_models(enc.cnf, Cardinality(DOMAIN enc.var_map))) > 1
  /\ satisfying_inputs(c) # input_assignments(c)

C16_Witness ==
  /\ pc # "idle"
  /\ output_size(circuit) = 1
  /\ encodable(circuit)
  /\ several_models(circuit, tseytin_transformation(circuit))

\* ------------------------------------------------------------------------
\* The simplifier
\* ------------------------------------------------------------------------

\* the same gates (label, type, operands), inputs and outputs, whatever
\* the order the gates were created in
same_circuit(a, b) ==
  /\ a.gates = b.gates
  /\ a.inputs = b.inputs
  /\ a.outputs = b.outputs

\* C17: for every circuit whose gates have at most two operands,
\* RemoveConstantGates applied to the circuit it has returned gives a
\* circuit with the same gates (label, type, operands), the same inputs and
\* the same outputs
C17_SimplifierIdempotent ==
  pc = "simplified_twice" => same_circuit(heap[2], heap[1])

\* a gate of c that is no NOT stands in once as a NOT of its operand that
\* is not constant
negation_emitted(c, once) ==
  \E l \in DOMAIN once.gates :
    /\ c.gates[l].gate_type \in BinaryTypes
    /\ once.gates[l].gate_type = "NOT"

\* the simplifier removed gates of c, among them constants, emitted a NOT
\* for a gate of two operands, and was applied to its result
C17_Witness ==
  /\ pc = "simplified_twice"
  /\ size(heap[1]) < size(circuit)
  /\ negation_emitted(circuit, heap[1])

\* the values vals gives the inputs the simplified circuit keeps
surviving(once, vals) == [l \in Range(once.inputs) |-> vals[l]]

\* the simplified circuit once of c, on every assignment of the inputs of
\* c: its output, where it has one, is that of c; where it has none, the
\* output of c is the constant it folded to
same_function(c, once) ==
  \A vals \in input_assignments(c) :
    IF output_size(once) = 1
    THEN evaluate(once, surviving(once, vals)) = evaluate(c, vals)
    ELSE evaluate(c, vals)[1] = folded_constant(c)

\* C18: the circuit RemoveConstantGates returns computes at its output,
\* remapped or not, the function of the surviving inputs the output of C
\* is, and the output is dropped only where it has the same constant value
\* on every assignment of the inputs
C18_SimplifierKeepsFunction ==
  pc # "idle" => same_function(circuit, RemoveConstantGates(circuit))

\* the output of c was remapped to another gate, and is not constant
remapped_output(c, once) ==
  /\ output_size(once) = 1
  /\ once.outputs # c.outputs
  /\ satisfying_inputs(c) \notin {{}, input_assignments(c)}

C18_Witness ==
  /\ pc # "idle"
  /\ remapped_output(circuit, RemoveConstantGates(circuit))

\* ------------------------------------------------------------------------
\* Forced assignments and the depth
\* ------------------------------------------------------------------------

\* the step applies a forced value: the call it makes is on the instance
\* of the node, n levels below the node
ForcedDescends(n) ==
  last'.kind = "forced" =>
     /\ stack'[Len(stack')].inst = Top.inst
     /\ stack'[Len(stack')].pc = "call"
     /\ stack'[Len(stack')].depth = Top.depth + n

\* the original statement of C19: a forced assignment does not consume a
\* depth level, the descent goes on at the depth of the node
C19_ForcedKeepsDepth == [][ForcedDescends(0)]_vars

\* C19: a forced assignment consumes a depth level: after the forced value
\* is applied in place the descent goes on at depth + 1 of the node where
\* the forced gate was found, so forced steps count against max_depth
C19_ForcedConsumesDepth == [][ForcedDescends(1)]_vars

\* a forced step that used the last level: the instance has inputs left
\* and the call on it is at max_depth
C19_Witness ==
  /\ last.kind = "forced"
  /\ AtCall
  /\ Top.depth = max_depth
  /\ input_size(heap[Top.inst].circuit) > 0

\* ------------------------------------------------------------------------
\* Termination of the cube stage
\* ------------------------------------------------------------------------

\* the most steps a call of _cube at depth k takes to return: one where
\* _should_stop holds by the depth, else the two assignments of a
\* branching and the two calls at depth k + 1
steps_of_call(k) ==
  IF k >= max_depth THEN 1 ELSE 3 * 2 ^ (max_depth - k) - 2

\* the same for a call that waits for its False branch to return
steps_of_frame(f) ==
  IF f.pc = "call" THEN steps_of_call(f.depth)
  ELSE 1 + steps_of_call(f.depth + 1)

RECURSIVE steps_to_come(_)
steps_to_come(frames) ==
  IF frames = << >> THEN 0
  ELSE steps_of_frame(Head(frames)) + steps_to_come(Tail(frames))

\* the steps the cube stage has left at most, the return of cube() one
StepsLeft == IF pc = "cubing" THEN 1 + steps_to_come(stack) ELSE 0

\* the selection of a call that goes on can be acted on: nothing raises
acts_on(sel) ==
  \/ sel.kind = "none"
  \/ /\ sel.kind = "forced"
     /\ heap_assign(sel.heap, Top.inst, sel.label,
                    Truthy(sel.forced_value)).status # "RAISED"
  \/ /\ sel.kind = "branch"
     /\ branch_assign(sel.heap, Top.inst, sel.label, FALSE).status # "RAISED"

\* the cube stage is never stuck: the call on top of the stack is a leaf,
\* or descends, or takes its True branch, and with no call left cube()
\* returns
GoesOn ==
  pc = "cubing" =>
    \/ stack = << >>
    \/ AtCall /\ (Stops \/ acts_on(Selection))
    \/ /\ Top.pc = "second"
       /\ branch_assign(heap, Top.inst, Top.label, TRUE).status # "RAISED"

\* C20: the cube stage ends for every circuit and every max_depth, 0 and
\* negative ones too: each step of it, a forced assignment or a branching
\* or a leaf, lowers the number of steps it has left at most, it is never
\* stuck, and cube() returns with every call of _cube ended in a leaf
C20_CubeStageTerminates ==
  /\ [](GoesOn /\ StepsLeft >= 0 /\ (Cubed => stack = << >>))
  /\ [][pc = "cubing" => StepsLeft' < StepsLeft]_vars

\* cube() returned with a negative max_depth, the root with inputs left
C20_Witness ==
  /\ pc = "conquer"
  /\ last.kind = "return"
  /\ max_depth < 0
  /\ cubes = <<1>>
  /\ input_size(heap[1].circuit) > 0

\* ------------------------------------------------------------------------
\* The selection of the branching gate
\* ------------------------------------------------------------------------

\* the place of a label in the order the gates of c were inserted in
place_of(c, label) == CHOOSE i \in DOMAIN c.order : c.order[i] = label

\* the gates of c the ranking may list
rankable(c) ==
  { l \in DOMAIN c.gates : c.gates[l].gate_type \in {"INPUT", "AND"} }

\* a ranks before b: a higher score, or the same and inserted earlier
ranks_before(c, a, b) ==
  \/ score(c, a) > score(c, b)
  \/ score(c, a) = score(c, b) /\ place_of(c, a) < place_of(c, b)

\* cands as the ranking of c under the limit: only INPUT and AND gates, no
\* more than the limit and no fewer than there are, each before the next,
\* and every gate left out after every gate listed
ranked_as_stated(c, cands, limit) ==
  /\ Range(cands) \subseteq rankable(c)
  /\ Len(cands) <= limit
  /\ Len(cands) = limit \/ Range(cands) = rankable(c)
  /\ \A i \in DOMAIN cands : \A j \in DOMAIN cands :
       i < j => ranks_before(c, cands[i], cands[j])
  /\ \A a \in Range(cands) : \A b \in rankable(c) \ Range(cands) :
       ranks_before(c, a, b)

\* the weights of the lookahead on the candidates, none of them forced
weights_of(h, id, cands) ==
  [i \in DOMAIN cands |-> weight_gate(h, id, cands[i])]

\* the label selected is that of the first candidate of maximal weight
first_of_maximal(label, cands, w) ==
  \E k \in DOMAIN cands :
    /\ cands[k] = label
    /\ \A j \in DOMAIN cands : w[j].weight <= w[k].weight
    /\ \A j \in 1..(k - 1) : w[j].weight < w[k].weight

selected_as_stated(sel, cands) ==
  sel.kind = "branch" =>
    first_of_maximal(sel.label, cands, weights_of(heap, Top.inst, cands))

\* C21: where no ranked candidate is forced, _select_gate returns the
\* candidate of maximal lookahead weight, the first of them in the ranking
\* where several have it; the ranking lists INPUT and AND gates only, at
\* most candidates_limit of them, by descending score, gates of the same
\* score in the order they were inserted in
C21_SelectsFirstOfMaximalWeight ==
  (AtCall /\ ~Stops) =>
     /\ ranked_as_stated(heap[Top.inst].circuit,
                         rank_candidates(heap[Top.inst], candidates_limit),
                         candidates_limit)
     /\ selected_as_stated(Selection,
                           rank_candidates(heap[Top.inst], candidates_limit))

\* two candidates of the same score and the same weight, the first of
\* them selected
tie_of_weights(sel, cands, w) ==
  /\ sel.kind = "branch"
  /\ Len(cands) = 2
  /\ w[1].weight = w[2].weight
  /\ sel.label = cands[1]

tie_at(inst, cands) ==
  /\ tie_of_weights(Selection, cands, weights_of(heap, Top.inst, cands))
  /\ score(inst.circuit, cands[1]) = score(inst.circuit, cands[2])

C21_Witness ==
  /\ AtCall
  /\ ~Stops
  /\ tie_at(heap[Top.inst], rank_candidates(heap[Top.inst], candidates_limit))

\* ------------------------------------------------------------------------
\* The size reductions of the lookahead
\* ------------------------------------------------------------------------

\* delta of _weight_gate for the result r of an assign on inst
delta_of(inst, r) == size(inst.circuit) - size(r.inst.circuit)

\* an assign of the lookahead that returns OK leaves a smaller circuit
shrinks(inst, r) == r.status = "OK" => delta_of(inst, r) > 0

\* C22: in the lookahead on an instance the driver ranks, the assignment of
\* a candidate that returns OK leaves a circuit of strictly smaller size,
\* for False and for True, so `assert delta > 0` does not fail, and with
\* candidates and none of them forced a best label is found
C22_LookaheadShrinks ==
  (AtCall /\ ~Stops) =>
     /\ \A l \in Range(rank_candidates(heap[Top.inst], candidates_limit)) :
          \A v \in BOOLEAN :
            shrinks(heap[Top.inst], assign(heap[Top.inst], l, v))
     /\ Selection.kind # "raised"
     /\ Selection.kind = "none" =>
          rank_candidates(heap[Top.inst], candidates_limit) = << >>

\* the reductions of a candidate: one gate for False, several for True
one_and_more(inst, r0, r1) ==
  /\ r0.status = "OK" /\ delta_of(inst, r0) = 1
  /\ r1.status = "OK" /\ delta_of(inst, r1) > 1

C22_Witness ==
  /\ AtCall
  /\ ~Stops
  /\ Selection.kind = "branch"
  /\ one_and_more(heap[Top.inst],
                  assign(heap[Top.inst], Selection.label, FALSE),
                  assign(heap[Top.inst], Selection.label, TRUE))

\* ------------------------------------------------------------------------
\* An AND gate assigned False
\* ------------------------------------------------------------------------

\* the AND gates of the circuit of an instance
and_gates(inst) ==
  { g \in DOMAIN inst.circuit.gates : inst.circuit.gates[g].gate_type = "AND" }

\* v(l), the variable of a label
v_of(inst, l) == inst.gates_config[l].idx

\* the propagation of g = False, r its result, on the AND gate g of inst
\* with the operands u0 and u1: the two clauses appended, g a constant with
\* no operand and out of the users of u0 and u1, nothing else touched
and_false_frame(inst, g, u0, u1, r) ==
  /\ r.status = "OK"
  /\ r.inst.cnf = inst.cnf \o << <<0 - v_of(inst, g)>>,
                                <<0 - v_of(inst, u0), 0 - v_of(inst, u1)>> >>
  /\ r.inst.circuit.gates[g] = Gate("ALWAYS_FALSE", << >>)
  /\ ~InSeq(g, r.inst.circuit.users[u0])
  /\ ~InSeq(g, r.inst.circuit.users[u1])
  /\ \A l \in DOMAIN inst.circuit.gates \ {g} :
       r.inst.circuit.gates[l] = inst.circuit.gates[l]
  /\ DOMAIN r.inst.circuit.gates = DOMAIN inst.circuit.gates
  /\ r.inst.circuit.inputs = inst.circuit.inputs
  /\ r.inst.gates_config = inst.gates_config
  /\ r.inst.var_map = inst.var_map

\* assign(g, False), r its result: the same clauses and numbering once the
\* simplifier has run, the operands still gates of the circuit as they were
and_false_assign(inst, g, u0, u1, r) ==
  /\ r.status = "OK"
  /\ r.inst.cnf = inst.cnf \o << <<0 - v_of(inst, g)>>,
                                <<0 - v_of(inst, u0), 0 - v_of(inst, u1)>> >>
  /\ r.inst.gates_config = inst.gates_config
  /\ \A u \in {u0, u1} :
       inst.circuit.gates[u].gate_type \notin {"ALWAYS_TRUE", "ALWAYS_FALSE"}
         => /\ u \in DOMAIN r.inst.circuit.gates
            /\ r.inst.circuit.gates[u] = inst.circuit.gates[u]

and_false_as_stated(inst, g, ops) ==
  /\ and_false_frame(inst, g, ops[1], ops[2],
                     assign_and_propagate(inst, g, FALSE))
  /\ and_false_assign(inst, g, ops[1], ops[2], assign(inst, g, FALSE))

\* C23: assign(g, False) on an AND gate g with the operands u0 and u1
\* appends the unit clause [-v(g)] and the clause [-v(u0), -v(u1)], makes
\* g ALWAYS_FALSE with its operand edges out of the user index, and neither
\* assigns an operand nor adds a unit clause for one
C23_AndFalseDoesNotDescend ==
  \A inst \in Made :
    \A g \in and_gates(inst) :
      and_false_as_stated(inst, g, inst.circuit.gates[g].operands)

\* an instance of the cube tree with an AND gate of two inputs, which
\* assign(g, False) leaves inputs of the circuit
and_of_inputs(inst, g, r) ==
  /\ \A i \in 1..2 :
       inst.circuit.gates[inst.circuit.gates[g].operands[i]].gate_type
         = "INPUT"
  /\ r.inst.circuit.inputs = inst.circuit.inputs
  /\ Len(r.inst.cnf) = Len(inst.cnf) + 2

C23_Witness ==
  \E inst \in Made :
    \E g \in and_gates(inst) : and_of_inputs(inst, g, assign(inst, g, FALSE))

\* ------------------------------------------------------------------------
\* Constants and conflicts in assign
\* ------------------------------------------------------------------------

\* the gates of an instance that are constants
constant_gates(inst) ==
  { k \in DOMAIN inst.circuit.gates :
      inst.circuit.gates[k].gate_type \in {"ALWAYS_TRUE", "ALWAYS_FALSE"} }

\* the status stated for the value w on the constant gate k
status_on_constant(inst, k, w) ==
  IF (inst.circuit.gates[k].gate_type = "ALWAYS_TRUE") = w
  THEN "OK" ELSE "CONFLICT"

\* w on the constant gate k of inst: the propagation, rp its result, leaves
\* the instance as it is with the status stated, and assign, ra its
\* result, returns a conflict the same way
constant_kept(inst, k, w, rp, ra) ==
  /\ rp.inst = inst
  /\ rp.status = status_on_constant(inst, k, w)
  /\ rp.status = "CONFLICT" => ra = rp

\* a conflict of the propagation is what assign returns, the instance as
\* the propagation left it
conflict_returned(rp, ra) == rp.status = "CONFLICT" => ra = rp

\* the instance mid, left by a propagation with constants in it
constants_kept(mid) ==
  \A k \in constant_gates(mid) :
    \A w \in BOOLEAN :
      constant_kept(mid, k, w, assign_and_propagate(mid, k, w),
                    assign(mid, k, w))

assign_on_constants(rp, ra) ==
  /\ conflict_returned(rp, ra)
  /\ constants_kept(rp.inst)

\* C24: a value assigned to a gate that is ALWAYS_TRUE or ALWAYS_FALSE
\* appends no clause and changes no gate, with OK where the value is that
\* of the constant and CONFLICT where it is not; and a CONFLICT met
\* anywhere in the propagation is returned by assign, the simplifier not run
C24_ConstantsAndConflicts ==
  \A inst \in Made :
    \A L \in DOMAIN inst.circuit.gates :
      \A v \in BOOLEAN :
        assign_on_constants(assign_and_propagate(inst, L, v),
                            assign(inst, L, v))

\* a conflict met below a NOT or an AND: the propagation added clauses and
\* made constants before it met a constant of the other value
deep_conflict(inst, rp) ==
  /\ rp.status = "CONFLICT"
  /\ Len(rp.inst.cnf) > Len(inst.cnf) + 1
  /\ constant_gates(rp.inst) # {}
  /\ simplify(rp.inst) # rp.inst

C24_Witness ==
  \E inst \in Made :
    \E L \in DOMAIN inst.circuit.gates :
      \E v \in BOOLEAN : deep_conflict(inst, assign_and_propagate(inst, L, v))

\* ------------------------------------------------------------------------
\* The value slots of gates_config
\* ------------------------------------------------------------------------

\* the value of a label is set for no gate but an INPUT, and for an INPUT
\* where the circuit of the instance does not list it among its inputs
values_as_stated(inst) ==
  \A L \in DOMAIN inst.gates_config :
    /\ inst.gates_config[L].value # "None" => inst.gates_config[L].is_input
    /\ inst.gates_config[L].is_input =>
         (inst.gates_config[L].value # "None"
            <=> ~InSeq(L, inst.circuit.inputs))

\* the same after an assign on the instance, whatever its status
values_after(r) == values_as_stated(r.inst)

\* C25: in every instance, gates_config[L].value is set where L is an INPUT
\* that was assigned, directly or by propagation, and nowhere else: never
\* for a gate that is not an input, and for an INPUT exactly where the
\* circuit of the instance lists it no longer among its inputs
C25_ValueSetForAssignedInputs ==
  /\ \A id \in DOMAIN heap : values_as_stated(heap[id])
  /\ \A inst \in Made :
       /\ values_as_stated(inst)
       /\ \A L \in DOMAIN inst.circuit.gates :
            \A v \in BOOLEAN : values_after(assign(inst, L, v))

\* a branch on an input: its value is set in the branch and not in the
\* instance branched from, and the branch has inputs left
C25_Witness ==
  /\ last.kind = "branch_true"
  /\ heap[last.inst].gates_config[last.label].is_input
  /\ heap[last.inst].gates_config[last.label].value = "True"
  /\ last.children[1].gates_config[last.label].value = "False"
  /\ last.parent[1].gates_config[last.label].value = "None"
  /\ heap[last.inst].circuit.inputs # << >>

\* ------------------------------------------------------------------------
\* The validation of the constructor
\* ------------------------------------------------------------------------

\* the type and the number of operands of every gate of c
shapes(c) ==
  { <<c.gates[l].gate_type, Len(c.gates[l].operands)>> : l \in DOMAIN c.gates }

\* the constructor has built an instance of the circuit, with its CNF
Built ==
  /\ last.status = "OK"
  /\ DOMAIN heap = {1}
  /\ heap[1].circuit = circuit

\* the constructor has failed, with no instance and no CNF
Refused == last.status = "RAISED" /\ heap = << >>

\* the original statement of C26: a circuit of INPUT, AND of 2, NOT of 1
\* and constant gates is accepted, any other refused
C26_ConstantsAccepted ==
  last.kind = "construct" =>
    IF shapes(circuit) \subseteq { <<"INPUT", 0>>, <<"AND", 2>>, <<"NOT", 1>>,
                                   <<"ALWAYS_TRUE", 0>>, <<"ALWAYS_FALSE", 0>> }
    THEN Built ELSE Refused

\* C26: the constructor accepts a circuit whose every gate is an INPUT, an
\* AND of exactly 2 operands or a NOT of exactly 1, and fails with an
\* error, no CNF built, for a gate of any other type, ALWAYS_TRUE and
\* ALWAYS_FALSE among them, or arity
C26_OnlyInputAndNot ==
  last.kind = "construct" =>
    IF shapes(circuit) \subseteq { <<"INPUT", 0>>, <<"AND", 2>>, <<"NOT", 1>> }
    THEN Built ELSE Refused

\* a circuit with a constant gate and no other fault, refused
C26_Witness ==
  /\ last.kind = "construct"
  /\ Refused
  /\ <<"ALWAYS_FALSE", 0>> \in shapes(circuit)
  /\ shapes(circuit) \subseteq { <<"INPUT", 0>>, <<"AND", 2>>, <<"NOT", 1>>,
                                 <<"ALWAYS_FALSE", 0>> }

\* ------------------------------------------------------------------------
\* The traversal of the Tseytin encoder
\* ------------------------------------------------------------------------

\* the gates the output depends on, itself included
reached(c) == reachable(c, Range(c.outputs), {})

\* the clauses of the gate l under the variables vm
block(c, vm, l) ==
  gate_clauses(c.gates[l].gate_type, vm[l],
               [i \in DOMAIN c.gates[l].operands |-> vm[c.gates[l].operands[i]]])

\* the clauses of the gates of the variables v..n, one gate after the other
RECURSIVE blocks_from(_, _, _, _)
blocks_from(c, vm, v, n) ==
  IF v > n THEN << >>
  ELSE block(c, vm, CHOOSE l \in DOMAIN vm : vm[l] = v)
       \o blocks_from(c, vm, v + 1, n)

encoded_once(c, inst) ==
  LET vm == inst.var_map
      k  == Len(c.inputs)
      n  == Cardinality(DOMAIN vm)
  IN /\ DOMAIN vm = Range(c.inputs) \cup reached(c)
     /\ { vm[l] : l \in DOMAIN vm } = 1..n
     /\ \A i \in 1..k : vm[c.inputs[i]] = i
     /\ \A l \in reached(c) : \A op \in Range(c.gates[l].operands) :
          vm[op] < vm[l]
     /\ inst.cnf = blocks_from(c, vm, k + 1, n) \o << <<vm[c.outputs[1]]>> >>

\* C27: the encoder gives a variable to the inputs, 1..k in the order of the
\* inputs, and to the gates the output depends on, the variables being
\* distinct and filling 1..N; the operands of a gate have their variables
\* before the gate has its own; the clause list is the clause set of every
\* such gate that is not an input, once, in the order of the variables,
\* and the unit clause of the output
C27_EachGateEncodedOnce ==
  (last.kind = "construct" /\ Built) => encoded_once(circuit, heap[1])

\* a gate that is not an input, used by two gates the output depends on,
\* and a gate the output does not depend on
C27_Witness ==
  /\ last.kind = "construct"
  /\ Built
  /\ \E l \in reached(circuit) :
       /\ circuit.gates[l].gate_type # "INPUT"
       /\ \E u1, u2 \in reached(circuit) :
            /\ u1 # u2
            /\ l \in Range(circuit.gates[u1].operands)
            /\ l \in Range(circuit.gates[u2].operands)
  /\ \E l \in DOMAIN heap[1].var_map : heap[1].var_map[l] # l
  /\ reached(circuit) # DOMAIN circuit.gates

\* ------------------------------------------------------------------------
\* The status of the assignments the driver makes
\* ------------------------------------------------------------------------

\* C28: the assignment of a forced value, made in place with its status
\* ignored, returns OK, and so do the two assignments of a branching gate:
\* no instance that cube goes on with, a leaf among them, comes from an
\* assign that returned CONFLICT
C28_DriverAssignsReturnOK ==
  last.kind \in {"forced", "branch_false", "branch_true"} =>
    last.status = "OK"

\* a forced step: the other value conflicts on a copy in the lookahead, the
\* forced one is assigned in place
C28_Witness ==
  /\ last.kind = "forced"
  /\ last.status = "OK"
  /\ assign(last.parent[1], last.label, ~last.value).status = "CONFLICT"
  /\ last.children[1] = heap[last.inst]

\* ------------------------------------------------------------------------
\* The instances after an assignment that returned OK
\* ------------------------------------------------------------------------

\* no constant gate, no operand outside the circuit, a positive variable
\* index in gates_config for every gate
well_formed(inst) ==
  \A l \in DOMAIN inst.circuit.gates :
    /\ inst.circuit.gates[l].gate_type \notin {"ALWAYS_TRUE", "ALWAYS_FALSE"}
    /\ Range(inst.circuit.gates[l].operands) \subseteq DOMAIN inst.circuit.gates
    /\ l \in DOMAIN inst.gates_config
    /\ inst.gates_config[l].idx > 0

well_formed_if_ok(r) == r.status = "OK" => well_formed(r.inst)

\* C29: an instance that comes from an assign that returned OK, the root
\* instance, a forced one, a branch and a leaf among them, has no
\* ALWAYS_TRUE and no ALWAYS_FALSE gate, has the operands of its gates
\* among its gates, and has a positive variable index in gates_config for
\* every gate; and so has the instance after any further assign on one of
\* its gates that returns OK
C29_InstancesWellFormed ==
  \A inst \in Made \cup Range(last.parent) :
    /\ last.status = "OK" => well_formed(inst)
    /\ \A L \in DOMAIN inst.circuit.gates :
         \A v \in BOOLEAN : well_formed_if_ok(assign(inst, L, v))

\* a leaf that still has gates, after an assignment that removed some, one
\* of them an AND gate
C29_Witness ==
  /\ last.kind = "leaf"
  /\ size(last.parent[1].circuit) > 0
  /\ size(last.parent[1].circuit) < Cardinality(DOMAIN last.parent[1].gates_config)
  /\ \E l \in DOMAIN last.parent[1].gates_config :
       /\ l \notin DOMAIN last.parent[1].circuit.gates
       /\ ~last.parent[1].gates_config[l].is_input
  /\ \E l \in DOMAIN last.parent[1].circuit.gates :
       last.parent[1].circuit.gates[l].gate_type = "AND"

\* ------------------------------------------------------------------------
\* The trivial-result marker over the calls on one solver object
\* ------------------------------------------------------------------------

\* the output of the circuit simplifies to a constant
simplifies_to_constant(c) == output_size(apply_transformers(c)) = 0

\* the marker is set exactly for a circuit of a constant output, to the
\* answer of that circuit
marker_of(c, marker) ==
  IF simplifies_to_constant(c) THEN marker = <<trivial_answer(c)>>
  ELSE marker = << >>

\* C30: after a call cube(C) or solve(C) on a solver object, whatever calls
\* came before, _trivial_result is set exactly when the output of C
\* simplified to a constant, and then to the answer of C; solve(C) returns
\* it in that case
C30_MarkerOfTheCircuitJustProcessed ==
  (last.kind \in {"cube", "solve"} /\ last.status = "OK") =>
    /\ marker_of(circuit, trivial_result)
    /\ (last.kind = "solve" /\ simplifies_to_constant(circuit))
         => result = trivial_result

====
